---- MODULE Spec2Model ----
(***************************************************************************)
(* A model of the training orchestration layer of cogodo/rl-learning:      *)
(* the experience stores (utils/buffer.py), the agent's metrics tracker    *)
(* (utils/metrics.py), the normalization wrappers (env_wrappers/) and the  *)
(* Trainer loop with its ExperimentRunner caller (runners/).               *)
(*                                                                         *)
(* Real numbers are kept in fixed point: a value v is stored as the        *)
(* integer 100 * v (Unit), a variance as 10000 * v.                        *)
(***************************************************************************)
EXTENDS Integers, Sequences, FiniteSets, TLC

\* ---------------------------------------------------------------- bounds
MaxCapacity == 3
MaxAdds == 5
MaxEpSteps == 4
MaxEpisodes == 2
MaxCadence == 2
MaxEvalEpisodes == 2
MaxSteps == 2
MaxBatch == 2
MaxWindow == 3
MaxUpdates == 4
MaxNormOps == 4
MaxOrderLen == 2
MaxFrames == 3
MaxFrameOps == 4
MaxLayers == 3
MaxModeOps == 2
MaxCkOps == 3
MaxRunEpisodes == 2
MaxAgentOps == 3

\* ------------------------------------------------------------- utilities
Min(a, b) == IF a <= b THEN a ELSE b

\* The last n elements of s, in order.
LastN(s, n) == SubSeq(s, Len(s) - n + 1, Len(s))

\* Python's None, kept apart from every number the model uses.
None == 0 - 1

\* IEEE not-a-number, kept apart from every number the model uses.
NaN == 0 - 99999

VARIABLES
  \* ReplayBuffer (utils/buffer.py)
  rb_buffer,     \* self.buffer: the deque's contents, oldest first
  rb_max_size,   \* self.max_size, also the deque's maxlen
  rb_min_size,   \* self.min_size
  rb_added,      \* history: every transition added since construction or clear
  rb_last,       \* history: the last call, and for sample its arguments and result
  \* EpisodeBuffer (utils/buffer.py)
  eb_lists,      \* the heap of list objects; eb_lists[1] is self.current_episode
  eb_buffer,     \* self.buffer: a deque of references into eb_lists
  eb_pending,    \* history: the steps added since the last terminal step, clear or reset
  eb_last,       \* history: the last operation and, for a terminal add_step, its episode
  \* MetricsTracker (utils/metrics.py), a tracker of its own
  mt,            \* the three windows and the lifetime counters
  mt_window,     \* window_size, the maxlen of the three deques
  mt_hist,       \* history: the rewards and lengths passed since construction or reset
  mt_last,       \* history: the last call, the tracker before it and what it returned
  \* NormalizeObservations / NormalizeRewards (env_wrappers/), a pair of their own
  nz,            \* the wrappers' fields: training flags and running statistics
  nz_cfg,        \* the observation normalizer's config: epsilon, momentum, reset flag
  nz_last,       \* history: the last call, its sample and the statistics before it
  nz_frozen,     \* history: the statistics when set_training(False) was called
  nz_ops,        \* history: the number of calls so far
 \* EnvironmentFactory (env_wrappers/env_factory.py), one call on one config
  wf_cfg,        \* the config: env name, the wrappers mapping and its order key
  wf_pc,         \* "start", then "built" / "failed" (create_env) or "applied" (apply_wrappers)
  wf_errors,     \* the violations listed by the ValueError of _validate_config
  wf_chain,      \* the wrappers around the returned environment, innermost first
  wf_envs,       \* the number of environment instances gym.make has constructed
   \* FrameStack (env_wrappers/frame_stack.py)
  fs,            \* the wrapper: num_frames and the frames deque, oldest first
  fs_out,        \* the stacked observation the last reset or step returned, <<>> before
  fs_hist,       \* since the last reset: its stack and the observations stepped
  fs_last,       \* the last call and the stack the last reset returned
   \* set_env_training_mode (utils/eval.py) on a chain of wrappers
  tm_chain,      \* the chain, outermost first, its last element the base environment
  tm_last,       \* the last call: its flag, the chain before it, whether it returned
   \* Trainer.save_checkpoint / load_checkpoint (runners/trainer.py) on a file system
  ck_files,      \* file name -> content, <<>> for a file that does not exist
  ck_agent,      \* the agent: its class and the state its save persists
  ck_last,       \* the last call, its arguments and the files and agent before it
   \* ExperimentRunner.run (runners/experiment.py), one run on one config
  rn_cfg,        \* algorithm type, eval_only, the two resume paths, the episode counts
  rn_pc,         \* where run is: start, created, selected, loaded, evaluating, exiting, done
  rn_agent,      \* the class of the agent build_agent has returned, "none" before
  rn_trainer,    \* the class select_trainer has picked, "none" before
  rn_restored,   \* the agent's state has been restored from the checkpoint
  rn_episodes,   \* the training and evaluation episodes begun so far
  rn_err,        \* the exception run ends with, "none" if none
   \* An agent, its metrics and its checkpoint file (agents/base.py, agents/random.py)
  ag,            \* the agent: its class, its metrics tracker and the tracker's window size
  ag_file,       \* the checkpoint file: <<>> or the payload saved and the agent as it was then
  ag_last,       \* the last call and the number of calls so far
  \* ExperimentRunner / Trainer (runners/)
  config,        \* the run's configuration: trainer class, wrapper chain, cadences
  pc,            \* where the run is
  episode_idx,   \* Trainer.train's loop variable
  eval_count,    \* Trainer.evaluate's completed episodes (len(rewards))
  steps,         \* the length so far of the episode in progress
  wr,            \* the wrappers' fields: training flags and running statistics
  err,           \* the exception that ended the run, or "none"
  files,         \* the files written by save_checkpoint
  env_closed,    \* env.close() has been called
  agent_closed,  \* agent.close() has been called
  metrics,       \* agent.metrics, the MetricsTracker's fields
  calls,         \* history: the indices train_episode was called with, in order
  ep_active,     \* history: a train_episode call is in progress
  ep_done,       \* history: train_episode calls that returned, and their lengths' sum
  evals,         \* history: one record per evaluate call
  in_eval,       \* history: an evaluate call is in progress
  train_exited   \* history: Trainer.train has returned or raised

rbVars == <<rb_buffer, rb_max_size, rb_min_size, rb_added, rb_last>>

ebVars == <<eb_lists, eb_buffer, eb_pending, eb_last>>

trVars ==
  <<config, pc, episode_idx, eval_count, steps, wr, err, files, env_closed,
    agent_closed, metrics, calls, ep_active, ep_done, evals, in_eval, train_exited>>

mtVars == <<mt, mt_window, mt_hist, mt_last>>

nzVars == <<nz, nz_cfg, nz_last, nz_frozen, nz_ops>>

wfVars == <<wf_cfg, wf_pc, wf_errors, wf_chain, wf_envs>>

fsVars == <<fs, fs_out, fs_hist, fs_last>>

tmVars == <<tm_chain, tm_last>>

ckVars == <<ck_files, ck_agent, ck_last>>

rnVars == <<rn_cfg, rn_pc, rn_agent, rn_trainer, rn_restored, rn_episodes, rn_err>>

agVars == <<ag, ag_file, ag_last>>

extVars == <<wfVars, fsVars, tmVars, ckVars, rnVars, agVars>>

\* The objects a training run of this model does not touch.
auxVars == <<rbVars, ebVars, mtVars, nzVars, extVars>>

vars == <<auxVars, trVars>>

\* The objects modelled before the environment factory.
coreVars == <<rbVars, ebVars, mtVars, nzVars, trVars>>

\* ------------------------------------------------------------ ReplayBuffer
\* A transition is <<obs, action, reward, next_obs, done>>.
Transitions == { <<0, 0, 0, 100, FALSE>>, <<100, 1, 100, 0, TRUE>> }

\* collections.deque(maxlen = m).append(x): a full deque drops its oldest item.
DequeAppend_keepOldest(d, x, m) ==
  IF m # None /\ Len(d) >= m THEN d ELSE Append(d, x)

DequeAppend(d, x, m) ==
  IF m = None THEN Append(d, x)
  ELSE IF m = 0 THEN d
  ELSE IF Len(d) >= m THEN Append(Tail(d), x)
  ELSE Append(d, x)

\* The record of a call that is not a sample.
RBCall(op) ==
  [op |-> op, k |-> 0, ready |-> FALSE, exc |-> "none", indices |-> <<>>,
   batch |-> <<>>, before |-> <<>>]

RBInitIdle ==
  /\ rb_buffer = <<>>
  /\ rb_max_size = 1
  /\ rb_min_size = 0
  /\ rb_added = <<>>
  /\ rb_last = RBCall("init")

RBInit ==
  /\ rb_buffer = <<>>
  /\ rb_max_size \in 0..MaxCapacity
  /\ rb_min_size \in 0..MaxCapacity
  /\ rb_added = <<>>
  /\ rb_last = RBCall("init")

RB_add(t) ==
  /\ Len(rb_added) < MaxAdds
  /\ rb_buffer' = DequeAppend(rb_buffer, t, rb_max_size)
  /\ rb_added' = Append(rb_added, t)
  /\ rb_last' = RBCall("add")
  /\ UNCHANGED <<rb_max_size, rb_min_size>>

RB_clear ==
  /\ rb_buffer' = <<>>
  /\ rb_added' = <<>>
  /\ rb_last' = RBCall("clear")
  /\ UNCHANGED <<rb_max_size, rb_min_size>>

RB_len == Len(rb_buffer)

\* ready(): len(self.buffer) >= self.min_size
RB_ready_nonEmpty == Len(rb_buffer) > 0

RB_ready == Len(rb_buffer) >= rb_min_size

\* The two checks at the head of sample, each raising ValueError.
SampleRejected_sizeOnly(size, min_size, batch_size) == batch_size > size

SampleRejected(size, min_size, batch_size) ==
  size < min_size \/ batch_size > size

\* The error kind the spec names for sample's ValueError.
InsufficientDataError == "ValueError"

\* np.random.choice(n, size = k, replace = False): the sequences of k pairwise
\* distinct positions of 1..n (the code's 0..n-1, shifted by one).
IndexChoices_withReplacement(n, k) == [1..k -> 1..n]

IndexChoices(n, k) ==
  { idx \in [1..k -> 1..n] : \A i, j \in 1..k : idx[i] = idx[j] => i = j }

\* sample(batch_size); rb_last.ready is what ready() returned just before it.
RB_sample(batch_size) ==
  LET size == Len(rb_buffer)
      call == [RBCall("sample") EXCEPT !.k = batch_size, !.ready = RB_ready,
                                       !.before = rb_buffer]
  IN /\ IF SampleRejected(size, rb_min_size, batch_size)
        THEN rb_last' = [call EXCEPT !.exc = "ValueError"]
        ELSE \E indices \in IndexChoices(size, batch_size) :
               rb_last' = [call EXCEPT !.indices = indices,
                                       !.batch = [i \in 1..batch_size |-> rb_buffer[indices[i]]]]
     /\ UNCHANGED <<rb_buffer, rb_max_size, rb_min_size, rb_added>>

\* ----------------------------------------------------------- EpisodeBuffer
\* A step is <<obs, action, reward, done>>.
Steps == { <<o, 0, r, d>> : o \in {0, 100}, r \in {0, 100}, d \in BOOLEAN }

\* The one list object __init__ creates; current_episode is never rebound.
CurrentRef == 1

EB_current_episode == eb_lists[CurrentRef]

\* The completed queue as the lists its references point to.
EB_episodes == [i \in 1..Len(eb_buffer) |-> eb_lists[eb_buffer[i]]]

EBInit ==
  /\ eb_lists = << <<>> >>
  /\ eb_buffer = <<>>
  /\ eb_pending = <<>>
  /\ eb_last = [op |-> "init", done |-> FALSE, episode |-> <<>>]

\* add_step: append to current_episode; on done, append the SAME list object to
\* the queue and clear it in place.
EB_add_step(s) ==
  /\ Len(eb_pending) < MaxEpSteps
  /\ Len(eb_buffer) < MaxEpSteps
  /\ LET appended == Append(eb_lists[CurrentRef], s)
         done == s[4]
     IN /\ eb_lists' = [eb_lists EXCEPT ![CurrentRef] = IF done THEN <<>> ELSE appended]
        /\ eb_buffer' = IF done THEN Append(eb_buffer, CurrentRef) ELSE eb_buffer
        /\ eb_pending' = IF done THEN <<>> ELSE Append(eb_pending, s)
        /\ eb_last' = [op |-> "add_step", done |-> done,
                       episode |-> IF done THEN Append(eb_pending, s) ELSE <<>>]

EB_clear ==
  /\ eb_buffer' = <<>>
  /\ eb_lists' = [eb_lists EXCEPT ![CurrentRef] = <<>>]
  /\ eb_pending' = <<>>
  /\ eb_last' = [op |-> "clear", done |-> FALSE, episode |-> <<>>]

EB_reset_current_episode ==
  /\ eb_lists' = [eb_lists EXCEPT ![CurrentRef] = <<>>]
  /\ eb_pending' = <<>>
  /\ eb_last' = [op |-> "reset_current_episode", done |-> FALSE, episode |-> <<>>]
  /\ UNCHANGED eb_buffer

\* ------------------------------------------------------------ fixed point
\* One fixed-point unit: the stored integer for 1.0.
Unit == 10 * 10

\* Newton's iteration for the integer square root, from an upper estimate r.
RECURSIVE NewtonSqrt(_, _)
NewtonSqrt(v, r) ==
  LET next == (r + v \div r) \div 2
  IN IF next >= r THEN r ELSE NewtonSqrt(v, next)

\* math.sqrt / np.sqrt, rounded down to the fixed-point grid: the r with
\* r * r <= v < (r + 1) * (r + 1).
\* The square root of a negative number is not a number.
ISqrt(v) == IF v < 0 THEN NaN ELSE IF v < 2 THEN v ELSE NewtonSqrt(v, v)

\* Python truthiness of an Optional number: None and 0 are false.
Truthy(x) == x # None /\ x # 0

\* ---------------------------------------------------------- MetricsTracker
RECURSIVE SeqSum(_)
SeqSum(q) == IF q = <<>> THEN 0 ELSE Head(q) + SeqSum(Tail(q))

RECURSIVE SeqSumSq(_)
SeqSumSq(q) == IF q = <<>> THEN 0 ELSE Head(q) * Head(q) + SeqSumSq(Tail(q))

SeqMin(q) == CHOOSE x \in {q[i] : i \in 1..Len(q)} : \A i \in 1..Len(q) : x <= q[i]

SeqMax(q) == CHOOSE x \in {q[i] : i \in 1..Len(q)} : \A i \in 1..Len(q) : x >= q[i]

\* MetricsTracker.__init__
MetricsInit ==
  [ rewards |-> <<>>, lengths |-> <<>>, losses |-> <<>>,
    total_episodes |-> 0, total_steps |-> 0, total_reward |-> 0 ]

\* What the callers pass to update: (episode_reward, episode_length, loss).
MetricUpdates ==
  { <<1, 1, None>>, <<2, 2, 0>>, <<3, 1, 50>>, <<4, 2, None>>, <<0 - 2, 1, 25>>, <<0, 0, 0>> }

\* update(episode_reward, episode_length, loss) on tracker m of window size w,
\* with the lifetime counters taken from the windows instead.
MetricsUpdate_windowTotals(m, w, episode_reward, episode_length, loss) ==
  LET rewards == DequeAppend(m.rewards, episode_reward, w)
      lengths == DequeAppend(m.lengths, episode_length, w)
  IN [ rewards |-> rewards,
       lengths |-> lengths,
       losses |-> IF Truthy(loss) THEN DequeAppend(m.losses, loss, w) ELSE m.losses,
       total_episodes |-> Len(rewards),
       total_steps |-> SeqSum(lengths),
       total_reward |-> SeqSum(rewards) ]

\* update(episode_reward, episode_length, loss) on tracker m of window size w.
MetricsUpdate(m, w, episode_reward, episode_length, loss) ==
  [ rewards |-> DequeAppend(m.rewards, episode_reward, w),
    lengths |-> DequeAppend(m.lengths, episode_length, w),
    losses |-> IF Truthy(loss) THEN DequeAppend(m.losses, loss, w) ELSE m.losses,
    total_episodes |-> m.total_episodes + 1,
    total_steps |-> m.total_steps + episode_length,
    total_reward |-> m.total_reward + episode_reward ]

\* _calculate_stats of an empty window.
ZeroStats == [mean |-> 0, std |-> 0, min |-> 0, max |-> 0]

\* _calculate_stats(data) without its empty case: numpy's mean, std, min and max
\* of an empty array.
CalculateStats_noEmptyCase(data) ==
  IF data = <<>> THEN [mean |-> NaN, std |-> NaN, min |-> NaN, max |-> NaN]
  ELSE [ mean |-> (Unit * SeqSum(data)) \div Len(data),
         std |-> 0,
         min |-> Unit * SeqMin(data),
         max |-> Unit * SeqMax(data) ]

\* _calculate_stats(data), in fixed point.
CalculateStats(data) ==
  IF data = <<>> THEN ZeroStats
  ELSE LET n == Len(data)
           sum == SeqSum(data)
       IN [ mean |-> (Unit * sum) \div n,
            std |-> ISqrt((Unit * Unit * (n * SeqSumSq(data) - sum * sum)) \div (n * n)),
            min |-> Unit * SeqMin(data),
            max |-> Unit * SeqMax(data) ]

\* get_episode_stats(): an Optional record is a sequence of at most one record,
\* None being the empty one.
EpisodeStats(m) ==
  [ reward_stats |-> <<CalculateStats(m.rewards)>>,
    length_stats |-> <<CalculateStats(m.lengths)>>,
    losses_stats |-> IF m.losses # <<>> THEN <<CalculateStats(m.losses)>> ELSE <<>> ]

\* The record of a call.
MTCall(op) ==
  [op |-> op, reward |-> 0, length |-> 0, loss |-> None, pre |-> mt,
   exc |-> "none", stats |-> <<>>]

MTInitWith(w) ==
  /\ mt = MetricsInit
  /\ mt_window = w
  /\ mt_hist = [rewards |-> <<>>, lengths |-> <<>>]
  /\ mt_last = [op |-> "init", reward |-> 0, length |-> 0, loss |-> None,
                pre |-> MetricsInit, exc |-> "none", stats |-> <<>>]

MTInitIdle == MTInitWith(1)

MTInit == \E w \in 0..MaxWindow : MTInitWith(w)

MT_update(u) ==
  /\ Len(mt_hist.rewards) < MaxUpdates
  /\ mt' = MetricsUpdate(mt, mt_window, u[1], u[2], u[3])
  /\ mt_hist' = [rewards |-> Append(mt_hist.rewards, u[1]),
                 lengths |-> Append(mt_hist.lengths, u[2])]
  /\ mt_last' = [MTCall("update") EXCEPT !.reward = u[1], !.length = u[2], !.loss = u[3]]
  /\ UNCHANGED mt_window

MT_reset ==
  /\ mt' = MetricsInit
  /\ mt_hist' = [rewards |-> <<>>, lengths |-> <<>>]
  /\ mt_last' = MTCall("reset")
  /\ UNCHANGED mt_window

MT_get_episode_stats ==
  /\ mt_last' = [MTCall("get_episode_stats") EXCEPT !.stats = <<EpisodeStats(mt)>>]
  /\ UNCHANGED <<mt, mt_window, mt_hist>>

\* ------------------------------------------------- normalization wrappers

\* NormalizeRewards._update_stats weights (0.99 / 0.01), in hundredths.
RewardMomentum == 99

\* NormalizeObservations' default momentum (0.99), in hundredths.
ObsMomentum == 99

\* mean' = m * old_mean + x * (1 - m)
UpdateMean(mean, x, m) == (m * mean + (Unit - m) * x) \div Unit

\* new_var = old_var * m + (x - old_mean) ** 2 * (1 - m), old_var = old_std ** 2
NewVar(mean, std, x, m) ==
  (m * std * std + (Unit - m) * (x - mean) * (x - mean)) \div Unit

\* The new std with the deviation taken from the updated mean.
UpdateStd_newMean(mean, std, x, m) ==
  IF std = NaN THEN NaN ELSE ISqrt(NewVar(UpdateMean(mean, x, m), std, x, m))

\* std' = sqrt(new_var), the deviation taken from old_mean; not a number once
\* the std is not a number.
UpdateStd(mean, std, x, m) ==
  IF std = NaN THEN NaN ELSE ISqrt(NewVar(mean, std, x, m))

\* Infinity, the quotient of a non-zero number and zero (its sign is not kept).
Inf == 0 - 99998

\* _normalize: (x - running_mean) / (running_std + epsilon)
Normalize(mean, std, epsilon, x) ==
  IF std = NaN THEN NaN
  ELSE IF std + epsilon = 0 THEN (IF x = mean THEN NaN ELSE Inf)
  ELSE ((x - mean) * Unit) \div (std + epsilon)

WrapperNames == {"normalize_observations", "normalize_rewards"}

\* The chains apply_wrappers builds from these two wrappers, innermost first.
Chains ==
  { <<>>,
    <<"normalize_observations">>,
    <<"normalize_rewards">>,
    <<"normalize_observations", "normalize_rewards">>,
    <<"normalize_rewards", "normalize_observations">> }

\* The wrappers' fields after __init__.
WrInit ==
  [ training |-> [n \in WrapperNames |-> TRUE],
    obs_mean |-> 0, obs_std |-> Unit,
    rew_mean |-> 0, rew_std |-> Unit ]

\* The running statistics of every normalization wrapper.
Stats(w) == <<w.obs_mean, w.obs_std, w.rew_mean, w.rew_std>>

InChain(n) == \E k \in 1..Len(config.chain) : config.chain[k] = n

\* hasattr(wrapper, "set_training"): only NormalizeObservations defines it.
HasSetTraining(n) == n = "normalize_observations"

\* set_env_training_mode: walk the chain by .env and call set_training where defined.
SetEnvTrainingMode(w, flag) ==
  [w EXCEPT !.training =
     [n \in WrapperNames |->
        IF InChain(n) /\ HasSetTraining(n) THEN flag ELSE w.training[n]]]

\* NormalizeObservations.set_training
NormObsSetTraining(w, flag) ==
  [w EXCEPT !.training["normalize_observations"] = flag]

\* NormalizeObservations.step after the inner step returned obs, with momentum m.
NormObsStep(w, obs, m) ==
  IF w.training["normalize_observations"]
  THEN [w EXCEPT !.obs_mean = UpdateMean(w.obs_mean, obs, m),
                 !.obs_std = UpdateStd(w.obs_mean, w.obs_std, obs, m)]
  ELSE w

\* reset with the statistics reset whenever reset_stats_on_episode is set.
NormObsReset_alwaysResets(w, reset_stats_on_episode) ==
  IF reset_stats_on_episode THEN [w EXCEPT !.obs_mean = 0, !.obs_std = Unit] ELSE w

\* NormalizeObservations.reset after the inner reset returned.
NormObsReset(w, reset_stats_on_episode) ==
  IF w.training["normalize_observations"] /\ reset_stats_on_episode
  THEN [w EXCEPT !.obs_mean = 0, !.obs_std = Unit]
  ELSE w

\* NormalizeRewards.step up to its call of the undefined self._normalize.
NormRewStep(w, reward) ==
  IF w.training["normalize_rewards"]
  THEN [w EXCEPT !.rew_mean = UpdateMean(w.rew_mean, reward, RewardMomentum),
                 !.rew_std = UpdateStd(w.rew_mean, w.rew_std, reward, RewardMomentum)]
  ELSE w

\* NormalizeRewards' epsilon (1e-8, whatever the config says): the smallest
\* positive number of the grid.
RewardEpsilon == 0 + 1

\* The epsilon and momentum values validation accepts (any number), in
\* hundredths, with the defaults 1e-8 (as the smallest positive number) and 0.99.
NormConfigs ==
  [ epsilon : {0, 1}, momentum : {0, ObsMomentum, 2 * Unit},
    reset_stats_on_episode : BOOLEAN ]

NormSamples == {0, Unit}

\* The observation normalizer's statistics.
ObsStats(w) == [mean |-> w.obs_mean, std |-> w.obs_std]

\* The record of a call on the pair.
NZCall(op, x) == [op |-> op, x |-> x, pre |-> nz]

NZInitWith(c) ==
  /\ nz = WrInit
  /\ nz_cfg = c
  /\ nz_last = [op |-> "init", x |-> 0, pre |-> WrInit]
  /\ nz_frozen = [stats |-> ObsStats(WrInit), calls |-> 0]
  /\ nz_ops = 0

NZInitIdle ==
  NZInitWith([epsilon |-> 1, momentum |-> ObsMomentum, reset_stats_on_episode |-> FALSE])

NZInit == \E c \in NormConfigs : NZInitWith(c)

\* NormalizeObservations.set_training(flag)
NZ_set_training(flag) ==
  /\ nz_ops < MaxNormOps
  /\ nz' = NormObsSetTraining(nz, flag)
  /\ nz_frozen' = IF flag THEN nz_frozen ELSE [stats |-> ObsStats(nz), calls |-> 0]
  /\ nz_last' = NZCall("set_training", 0)
  /\ nz_ops' = nz_ops + 1
  /\ UNCHANGED nz_cfg

\* NormalizeObservations.step, the inner environment returning obs.
NZ_obs_step(obs) ==
  /\ nz_ops < MaxNormOps
  /\ nz' = NormObsStep(nz, obs, nz_cfg.momentum)
  /\ nz_frozen' = [nz_frozen EXCEPT !.calls = @ + 1]
  /\ nz_last' = NZCall("obs_step", obs)
  /\ nz_ops' = nz_ops + 1
  /\ UNCHANGED nz_cfg

\* NormalizeObservations.reset
NZ_obs_reset ==
  /\ nz_ops < MaxNormOps
  /\ nz' = NormObsReset(nz, nz_cfg.reset_stats_on_episode)
  /\ nz_frozen' = [nz_frozen EXCEPT !.calls = @ + 1]
  /\ nz_last' = NZCall("obs_reset", 0)
  /\ nz_ops' = nz_ops + 1
  /\ UNCHANGED nz_cfg

\* NormalizeRewards.step, the inner environment returning reward: the statistics
\* are updated before the call of the undefined self._normalize raises.
NZ_rew_step(reward) ==
  /\ nz_ops < MaxNormOps
  /\ nz' = NormRewStep(nz, reward)
  /\ nz_last' = NZCall("rew_step", reward)
  /\ nz_ops' = nz_ops + 1
  /\ UNCHANGED <<nz_cfg, nz_frozen>>

\* What the base environment's step may return; the last step of an episode of
\* MaxSteps steps ends it.
EnvOutcomes(last) ==
  { o \in [obs : {0, Unit}, reward : {0, Unit}, terminated : BOOLEAN, truncated : BOOLEAN] :
      last => (o.terminated \/ o.truncated) }

\* step() on layer k of the chain (layer 0 is the base environment) with the base
\* environment returning o: the wrappers' fields afterwards and the exception raised.
RECURSIVE ChainStep(_, _, _)
ChainStep(k, w, o) ==
  IF k = 0 THEN [w |-> w, exc |-> "none"]
  ELSE LET inner == ChainStep(k - 1, w, o)
       IN IF inner.exc # "none" THEN inner
          ELSE IF config.chain[k] = "normalize_observations"
               THEN [w |-> NormObsStep(inner.w, o.obs, ObsMomentum), exc |-> "none"]
          ELSE IF config.chain[k] = "normalize_rewards"
               THEN [w |-> NormRewStep(inner.w, o.reward), exc |-> "AttributeError"]
          ELSE inner

\* reset() on layer k of the chain.
RECURSIVE ChainReset(_, _)
ChainReset(k, w) ==
  IF k = 0 THEN w
  ELSE IF config.chain[k] = "normalize_observations"
       THEN NormObsReset(ChainReset(k - 1, w), config.reset_stats_on_episode)
       ELSE ChainReset(k - 1, w)

\* ------------------------------------------------------ EnvironmentFactory
\* WRAPPER_REGISTRY's keys.
RegistryNames == {"base", "frame_stack", "normalize_observations", "normalize_rewards"}

\* A wrapper name that is not registered.
UnknownName == "typo"

\* DEFAULT_WRAPPER_ORDER with the reward transform first.
DefaultWrapperOrder_rewardsFirst ==
  <<"normalize_rewards", "normalize_observations", "frame_stack">>

\* DEFAULT_WRAPPER_ORDER
DefaultWrapperOrder == <<"normalize_observations", "frame_stack", "normalize_rewards">>

\* The position of a name in the lexicographic order of strings (sorted()).
NameRank ==
  [ base |-> 1, frame_stack |-> 2, normalize_observations |-> 3, normalize_rewards |-> 4,
    typo |-> 5 ]

Range(q) == {q[i] : i \in 1..Len(q)}

\* The sequences over S of length at most n.
SeqsUpTo(S, n) == UNION {[1..k -> S] : k \in 0..n}

\* sorted(names) left out: the names as they come.
Sorted_asGiven(q) == q

\* sorted(names): insertion of each name into the sorted prefix.
RECURSIVE Sorted(_)
Sorted(q) ==
  IF q = <<>> THEN <<>>
  ELSE LET rest == Sorted(Tail(q))
           before == SelectSeq(rest, LAMBDA n : NameRank[n] < NameRank[Head(q)])
           after == SelectSeq(rest, LAMBDA n : NameRank[n] >= NameRank[Head(q)])
       IN before \o <<Head(q)>> \o after

\* The names a config may use: the registered ones and an unregistered one.
ConfigNames == RegistryNames \cup {UnknownName}

\* wrapper_config.keys() without "order", in the mapping's key order.
Keys(c) ==
  LET ascending ==
        SelectSeq(<<"base", "frame_stack", "normalize_observations", "normalize_rewards",
                    UnknownName>>, LAMBDA n : n \in c.present)
  IN IF c.descending
     THEN [i \in 1..Len(ascending) |-> ascending[Len(ascending) + 1 - i]]
     ELSE ascending

\* The enabled test of apply_wrappers that ignores the enabled flag.
Enabled_ifPresent(c, n) == n \in c.present

\* `params and params.get("enabled", False)` for wrapper n.
Enabled(c, n) == n \in c.enabled

\* _resolve_wrapper_order
ResolveWrapperOrder(c) ==
  IF c.order_kind = "list"
  THEN SelectSeq(c.order, LAMBDA n : n \in RegistryNames)
  ELSE DefaultWrapperOrder

\* One loop of apply_wrappers: wrap with every enabled, registered name of names.
RECURSIVE ApplyNames(_, _, _)
ApplyNames(chain, names, c) ==
  IF names = <<>> THEN chain
  ELSE ApplyNames(IF Enabled(c, Head(names)) /\ Head(names) \in RegistryNames
                  THEN Append(chain, Head(names)) ELSE chain,
                  Tail(names), c)

\* apply_wrappers: the resolved order first, then the sorted remaining keys.
ApplyWrappers(c) ==
  LET resolved == ResolveWrapperOrder(c)
      extras == SelectSeq(Keys(c), LAMBDA n : n \notin Range(resolved))
  IN ApplyNames(ApplyNames(<<>>, resolved, c), Sorted(extras), c)

\* frame_stack's check: v is None or not isinstance(v, int) or v < 1.
InvalidFrameStack(c) ==
  Enabled(c, "frame_stack") /\ (c.frame_stack = None \/ c.frame_stack < 1)

\* _validate_config reporting its first violation only.
ValidationErrors_firstOnly(c) ==
  IF c.env_name = "NoSuchEnv" THEN << <<"env_not_found", c.env_name>> >>
  ELSE IF c.order_kind = "string" THEN << <<"order_not_list", "order">> >>
  ELSE <<>>

\* _validate_config: the errors list, in the order the checks append to it.
ValidationErrors(c) ==
  (IF c.env_name = "NoSuchEnv" THEN << <<"env_not_found", c.env_name>> >> ELSE <<>>)
  \o (IF c.order_kind = "string" THEN << <<"order_not_list", "order">> >> ELSE <<>>)
  \o [i \in 1..Len(SelectSeq(c.order, LAMBDA n : n \notin RegistryNames)) |->
        <<"unknown_in_order", SelectSeq(c.order, LAMBDA n : n \notin RegistryNames)[i]>>]
  \o [i \in 1..Len(SelectSeq(Keys(c), LAMBDA n : n \notin RegistryNames)) |->
        <<"unknown_wrapper", SelectSeq(Keys(c), LAMBDA n : n \notin RegistryNames)[i]>>]
  \o (IF InvalidFrameStack(c) THEN << <<"invalid_param", "frame_stack">> >> ELSE <<>>)

\* gym.make(env_name) constructs an environment instance when the name is registered.
GymMake(c) == IF c.env_name = "NoSuchEnv" THEN 0 ELSE 1

WFInitWith(c) ==
  /\ wf_cfg = c
  /\ wf_pc = "start"
  /\ wf_errors = <<>>
  /\ wf_chain = <<>>
  /\ wf_envs = 0

WFInitIdle ==
  WFInitWith([ env_name |-> "CartPole-v1", present |-> {}, enabled |-> {},
               descending |-> FALSE, order_kind |-> "absent", order |-> <<>>,
               frame_stack |-> None ])

\* The configs handed to the factory. `present` are the keys of the wrappers
\* mapping other than "order", kept in ascending or descending name order;
\* `enabled` those whose params have enabled = true; `order` the value of the
\* order key (absent, a string, or a list of names); `frame_stack` the stack
\* length given to the frame_stack wrapper, None when it gives none.
WFInit ==
  \E p \in SUBSET ConfigNames : \E en \in SUBSET p :
    \E o \in SeqsUpTo(ConfigNames, MaxOrderLen) :
      \E e \in {"CartPole-v1", "NoSuchEnv"},
         d \in (IF Cardinality(p) >= 2 THEN BOOLEAN ELSE {FALSE}),
         k \in (IF o = <<>> THEN {"absent", "string", "list"} ELSE {"list"}),
         f \in (IF "frame_stack" \in p THEN {None, 0, 2} ELSE {None}) :
        WFInitWith([ env_name |-> e, present |-> p, enabled |-> en, descending |-> d,
                     order_kind |-> k, order |-> o, frame_stack |-> f ])

\* create_env: _validate_config (which probes the name with gym.make), then
\* _create_base_env and apply_wrappers.
EF_create_env ==
  /\ wf_pc = "start"
  /\ LET errors == ValidationErrors(wf_cfg)
     IN IF errors # <<>>
        THEN /\ wf_pc' = "failed"
             /\ wf_errors' = errors
             /\ wf_envs' = wf_envs + GymMake(wf_cfg)
             /\ UNCHANGED wf_chain
        ELSE /\ wf_pc' = "built"
             /\ wf_chain' = ApplyWrappers(wf_cfg)
             /\ wf_envs' = wf_envs + GymMake(wf_cfg) + GymMake(wf_cfg)
             /\ UNCHANGED wf_errors
  /\ UNCHANGED wf_cfg

\* apply_wrappers called on a base environment with the wrappers mapping as it is.
EF_apply_wrappers ==
  /\ wf_pc = "start"
  /\ wf_pc' = "applied"
  /\ wf_chain' = ApplyWrappers(wf_cfg)
  /\ UNCHANGED <<wf_cfg, wf_errors, wf_envs>>

\* ---------------------------------------------------------------- FrameStack
\* The observations the wrapped environment returns.
Observations == {0, 1, 2}

\* _initialize_frames padding with zeros in front of the observation.
InitializeFrames_zeroPadded(num_frames, obs) ==
  [i \in 1..num_frames |-> IF i = num_frames THEN obs ELSE 0]

\* _initialize_frames: num_frames copies of the observation.
InitializeFrames(num_frames, obs) == [i \in 1..num_frames |-> obs]

\* _update_frames: append to deque(maxlen=num_frames).
UpdateFrames(frames, num_frames, obs) == DequeAppend(frames, obs, num_frames)

\* _get_stacked_obs: the deque is topped up with copies of its newest frame.
GetStackedObs(frames, num_frames) ==
  frames \o [i \in 1..(num_frames - Len(frames)) |-> frames[Len(frames)]]

\* self.env.observation_space.shape: the inner observation's shape (CartPole's).
OriginalShape == <<4>>

\* The shape of np.array(list(self.frames)), what _get_stacked_obs returns.
StackedShape(frames) == <<Len(frames)>> \o OriginalShape

\* observation_space.shape: the inner space itself when num_frames is 1, else
\* a Box of shape (num_frames,) + original_shape.
ObservationSpaceShape(num_frames) ==
  IF num_frames = 1 THEN OriginalShape ELSE <<num_frames>> \o OriginalShape

FSInitWith(k) ==
  /\ fs = [num_frames |-> k, frames |-> <<>>]
  /\ fs_out = <<>>
  /\ fs_hist = <<>>
  /\ fs_last = [op |-> "init", ops |-> 0, steps |-> 0, reset_out |-> <<>>]

FSInitIdle == FSInitWith(1)

FSInit == \E k \in 1..MaxFrames : FSInitWith(k)

\* FrameStack.reset
FS_reset(obs) ==
  /\ fs_last.ops < MaxFrameOps
  /\ LET stacked == GetStackedObs(InitializeFrames(fs.num_frames, obs), fs.num_frames)
     IN /\ fs' = [fs EXCEPT !.frames = stacked]
        /\ fs_out' = stacked
        /\ fs_hist' = [i \in 1..fs.num_frames |-> obs]
        /\ fs_last' = [op |-> "reset", ops |-> fs_last.ops + 1, steps |-> 0,
                       reset_out |-> stacked]

\* FrameStack.step
FS_step(obs) ==
  /\ fs_last.ops < MaxFrameOps
  /\ LET stacked == GetStackedObs(UpdateFrames(fs.frames, fs.num_frames, obs), fs.num_frames)
     IN /\ fs' = [fs EXCEPT !.frames = stacked]
        /\ fs_out' = stacked
        /\ fs_hist' = IF fs_hist = <<>> THEN <<>> ELSE Append(fs_hist, obs)
        /\ fs_last' = [fs_last EXCEPT !.op = "step", !.ops = @ + 1, !.steps = @ + 1]

\* FrameStack.clear_frames
FS_clear_frames ==
  /\ fs_last.ops < MaxFrameOps
  /\ fs' = [fs EXCEPT !.frames = <<>>]
  /\ fs_hist' = <<>>
  /\ fs_last' = [fs_last EXCEPT !.op = "clear_frames", !.ops = @ + 1]
  /\ UNCHANGED fs_out

\* ------------------------------------------------- set_env_training_mode
\* A link of the chain: "plain" has no set_training, "hook" has one that sets
\* the flag, "raising" has one that raises an Exception.
Layers == [kind : {"plain", "hook", "raising"}, training : BOOLEAN]

\* current.set_training(bool(training)) under try/except Exception: a hook that
\* raises has assigned the flag before raising (assigned) or has not.
HookResult(layer, flag, assigned) ==
  CASE layer.kind = "plain" -> layer
    [] layer.kind = "hook" -> [layer EXCEPT !.training = flag]
    [] layer.kind = "raising" -> IF assigned THEN [layer EXCEPT !.training = flag] ELSE layer

\* The links of the chain whose set_training raises.
Raising(chain) == {i \in 1..Len(chain) : chain[i].kind = "raising"}

\* The walk ended by the first set_training that raises.
TrainingModeWalk_abortOnRaise(chain, flag) ==
  {[i \in 1..Len(chain) |->
      IF \E j \in 1..(i - 1) : chain[j].kind = "raising"
      THEN chain[i]
      ELSE HookResult(chain[i], flag, i \in R)] : R \in SUBSET Raising(chain)}

\* The while loop of set_env_training_mode: every link, from env down the
\* .env attributes, gets its hook called; the chains it can leave behind.
TrainingModeWalk(chain, flag) ==
  {[i \in 1..Len(chain) |-> HookResult(chain[i], flag, i \in R)] :
     R \in SUBSET Raising(chain)}

TMInitWith(chain) ==
  /\ tm_chain = chain
  /\ tm_last = [op |-> "init", ops |-> 0, flag |-> FALSE, before |-> chain]

TMInitIdle == TMInitWith(<< [kind |-> "plain", training |-> FALSE] >>)

TMInit == \E n \in 1..MaxLayers : \E chain \in [1..n -> Layers] : TMInitWith(chain)

\* set_env_training_mode(env, training)
TM_set_env_training_mode(flag) ==
  /\ tm_last.ops < MaxModeOps
  /\ tm_chain' \in TrainingModeWalk(tm_chain, flag)
  /\ tm_last' = [op |-> "set_env_training_mode", ops |-> tm_last.ops + 1, flag |-> flag,
                 before |-> tm_chain]

\* ------------------------------------------- checkpoints on a file system
\* How Trainer.save_checkpoint may end: both files written, agent.save failing, or
\* the sidecar's torch.save failing after the primary artifact was written.
SaveOutcomes == {"ok", "primary_failed", "sidecar_failed"}

\* The paths checkpoints are saved to and loaded from.
Paths == {<<"a">>, <<"b">>}

\* f"{str(path)}.meta.pt"
Sidecar(path) == Append(path, "meta.pt")

FileNames == Paths \cup {Sidecar(p) : p \in Paths}

\* The states of an agent that agent.save persists.
AgentStates == {0, 1}

\* The content of a file at a checkpoint path that no agent.save wrote: torch.load
\* fails on it, or gives a payload without the keys the agent reads.
Incompatible == 0 - 2

\* disk holds at path a checkpoint that agent.load can read.
Loadable(disk, path) == disk[path] # <<>> /\ disk[path][1] \in AgentStates

\* `except NotImplementedError: pass` in load_checkpoint_if_configured: the
\* exceptions of trainer.load_checkpoint that end the run.
Aborts(exc) == exc \notin {"none", "NotImplementedError"}

AgentClasses == {"RandomAgent", "BaseAgent"}

\* The metadata argument of save_checkpoint: None or an episode index.
Metadata == {None, 0}

\* agent.save(path), then torch.save(metadata, sidecar) when metadata is given.
\* An agent.save that raises is taken to have written nothing.
SaveCheckpoint(disk, agent, path, metadata, outcome) ==
  LET primary == IF outcome = "primary_failed" THEN disk
                 ELSE [disk EXCEPT ![path] = <<agent.state>>]
  IN IF outcome = "ok" /\ metadata # None
     THEN [primary EXCEPT ![Sidecar(path)] = <<metadata>>]
     ELSE primary

\* load_checkpoint refusing a checkpoint that has no sidecar.
LoadCheckpoint_needsSidecar(disk, agent, path) ==
  IF Loadable(disk, path) /\ disk[Sidecar(path)] # <<>>
  THEN [agent |-> [agent EXCEPT !.state = disk[path][1]], err |-> "none"]
  ELSE [agent |-> agent, err |-> "FileNotFoundError"]

\* load_checkpoint with every agent.load swallowing its failures.
LoadCheckpoint_alwaysSilent(disk, agent, path) ==
  IF Loadable(disk, path)
  THEN [agent |-> [agent EXCEPT !.state = disk[path][1]], err |-> "none"]
  ELSE [agent |-> agent, err |-> "none"]

\* Trainer.load_checkpoint: agent.load(path). RandomAgent.load swallows every
\* Exception of torch.load and skips a payload without "config"; BaseAgent.load
\* lets torch.load's error and the KeyError of a missing key through.
LoadCheckpoint(disk, agent, path) ==
  IF Loadable(disk, path)
  THEN [agent |-> [agent EXCEPT !.state = disk[path][1]], err |-> "none"]
  ELSE [agent |-> agent,
        err |-> IF agent.class = "RandomAgent" THEN "none"
                ELSE IF disk[path] = <<>> THEN "FileNotFoundError"
                ELSE "KeyError"]

CKCall(op, path, metadata, outcome, exc) ==
  [op |-> op, ops |-> ck_last.ops + 1, path |-> path, metadata |-> metadata,
   outcome |-> outcome, err |-> exc, files |-> ck_files, agent |-> ck_agent]

CKInitWith(class) ==
  /\ ck_files = [f \in FileNames |-> <<>>]
  /\ ck_agent = [class |-> class, state |-> 0]
  /\ ck_last = [op |-> "init", ops |-> 0, path |-> <<"a">>, metadata |-> None,
                outcome |-> "ok", err |-> "none",
                files |-> [f \in FileNames |-> <<>>],
                agent |-> [class |-> class, state |-> 0]]

CKInitIdle == CKInitWith("RandomAgent")

CKInit == \E class \in AgentClasses : CKInitWith(class)

\* Trainer.save_checkpoint(path, metadata)
CK_save_checkpoint(path, metadata, outcome) ==
  /\ ck_last.ops < MaxCkOps
  /\ (outcome = "sidecar_failed") => (metadata # None)
  /\ ck_files' = SaveCheckpoint(ck_files, ck_agent, path, metadata, outcome)
  /\ ck_last' = CKCall("save_checkpoint", path, metadata, outcome,
                       IF outcome = "ok" THEN "none" ELSE "OSError")
  /\ UNCHANGED ck_agent

\* Trainer.load_checkpoint(path)
CK_load_checkpoint(path) ==
  /\ ck_last.ops < MaxCkOps
  /\ LET r == LoadCheckpoint(ck_files, ck_agent, path)
     IN /\ ck_agent' = r.agent
        /\ ck_last' = CKCall("load_checkpoint", path, None, "ok", r.err)
  /\ UNCHANGED ck_files

\* Training between two checkpoint calls changes the agent's state.
CK_agent_update ==
  /\ ck_last.ops < MaxCkOps
  /\ \E s \in AgentStates \ {ck_agent.state} : ck_agent' = [ck_agent EXCEPT !.state = s]
  /\ ck_last' = CKCall("update", <<"a">>, None, "ok", "none")
  /\ UNCHANGED ck_files

\* Something else than a checkpoint is written to a checkpoint path.
CK_foreign_file(path) ==
  /\ ck_last.ops < MaxCkOps
  /\ ck_files' = [ck_files EXCEPT ![path] = <<Incompatible>>]
  /\ ck_last' = CKCall("foreign_file", path, None, "ok", "none")
  /\ UNCHANGED ck_agent

\* The sidecar of a checkpoint is lost (removed from outside the program).
CK_lose_sidecar(path) ==
  /\ ck_last.ops < MaxCkOps
  /\ ck_files[Sidecar(path)] # <<>>
  /\ ck_files' = [ck_files EXCEPT ![Sidecar(path)] = <<>>]
  /\ ck_last' = CKCall("lose_sidecar", path, None, "ok", "none")
  /\ UNCHANGED ck_agent

\* ------------------------------------------------------ ExperimentRunner.run
\* algorithm.type values: the five select_trainer knows and one it does not.
AlgoTypes == {"DQN", "SARSA", "RANDOM", "PPO", "GRPO", "A2C"}

RunConfigs ==
  [ algo : AlgoTypes, eval_only : BOOLEAN, checkpoint : {None, 1}, resume_from : {None, 2},
    episodes : 0..MaxRunEpisodes, eval_episodes : 0..MaxRunEpisodes ]

\* build_agent: reads config['algorithm']['type'] and returns a RandomAgent.
BuildAgent(algo) == "RandomAgent"

\* The agent class build_agent's module imports for each algorithm type.
AgentVariant(algo) ==
  CASE algo = "RANDOM" -> "RandomAgent"
    [] algo = "DQN" -> "DQNAgent"
    [] algo = "SARSA" -> "SARSAAgent"
    [] algo = "PPO" -> "PPOAgent"
    [] algo = "GRPO" -> "GRPOAgent"
    [] OTHER -> "ValueError"

\* select_trainer
SelectTrainer(algo) ==
  IF algo \in {"DQN", "SARSA", "RANDOM"} THEN "OffPolicyTrainer"
  ELSE IF algo \in {"PPO", "GRPO"} THEN "OnPolicyTrainer"
  ELSE "ValueError"

\* eval_cfg.get("checkpoint") or train_cfg.get("resume_from")
ResumePath(c) == IF c.checkpoint # None THEN c.checkpoint ELSE c.resume_from

\* trainer.load_checkpoint(path): Trainer's delegates to agent.load, the two
\* subclasses override it with a stub.
TrainerLoadCheckpoint(trainer) ==
  IF trainer \in {"OffPolicyTrainer", "OnPolicyTrainer"} THEN "NotImplementedError" ELSE "ok"

RNInitWith(c) ==
  /\ rn_cfg = c
  /\ rn_pc = "start"
  /\ rn_agent = "none"
  /\ rn_trainer = "none"
  /\ rn_restored = FALSE
  /\ rn_episodes = 0
  /\ rn_err = "none"

RNInitIdle ==
  RNInitWith([ algo |-> "RANDOM", eval_only |-> FALSE, checkpoint |-> None,
               resume_from |-> None, episodes |-> 0, eval_episodes |-> 0 ])

RNInit == \E c \in RunConfigs : RNInitWith(c)

\* run: create_environment and create_agent.
RN_create ==
  /\ rn_pc = "start"
  /\ rn_pc' = "created"
  /\ rn_agent' = BuildAgent(rn_cfg.algo)
  /\ UNCHANGED <<rn_cfg, rn_trainer, rn_restored, rn_episodes, rn_err>>

\* run: select_trainer, outside the try block.
RN_select_trainer ==
  /\ rn_pc = "created"
  /\ IF SelectTrainer(rn_cfg.algo) = "ValueError"
     THEN /\ rn_pc' = "done"
          /\ rn_err' = "ValueError"
          /\ UNCHANGED rn_trainer
     ELSE /\ rn_pc' = "selected"
          /\ rn_trainer' = SelectTrainer(rn_cfg.algo)
          /\ UNCHANGED rn_err
  /\ UNCHANGED <<rn_cfg, rn_agent, rn_restored, rn_episodes>>

\* load_checkpoint_if_configured: a NotImplementedError is passed over.
RN_load_checkpoint_if_configured ==
  /\ rn_pc = "selected"
  /\ rn_pc' = "loaded"
  /\ rn_restored' =
       IF ResumePath(rn_cfg) # None /\ TrainerLoadCheckpoint(rn_trainer) = "ok"
       THEN TRUE ELSE rn_restored
  /\ UNCHANGED <<rn_cfg, rn_agent, rn_trainer, rn_episodes, rn_err>>

\* run_evaluation_only: trainer.evaluate(episodes), entered.
RN_run_evaluation_only ==
  /\ rn_pc = "loaded"
  /\ rn_cfg.eval_only
  /\ IF rn_trainer = "OnPolicyTrainer"
     THEN /\ rn_pc' = "exiting"
          /\ rn_err' = "NotImplementedError"
     ELSE /\ rn_pc' = "evaluating"
          /\ UNCHANGED rn_err
  /\ UNCHANGED <<rn_cfg, rn_agent, rn_trainer, rn_restored, rn_episodes>>

\* Trainer.evaluate: the next evaluation episode, or the return.
RN_evaluate_episode ==
  /\ rn_pc = "evaluating"
  /\ IF rn_episodes < rn_cfg.eval_episodes
     THEN /\ rn_episodes' = rn_episodes + 1
          /\ UNCHANGED rn_pc
     ELSE /\ rn_pc' = "exiting"
          /\ UNCHANGED rn_episodes
  /\ UNCHANGED <<rn_cfg, rn_agent, rn_trainer, rn_restored, rn_err>>

\* run_training: trainer.train. OnPolicyTrainer.train raises at once; the
\* train OffPolicyTrainer inherits calls train_episode, a stub that raises.
RN_run_training ==
  /\ rn_pc = "loaded"
  /\ ~rn_cfg.eval_only
  /\ rn_pc' = "exiting"
  /\ IF rn_trainer = "OnPolicyTrainer"
     THEN /\ rn_err' = "NotImplementedError"
          /\ UNCHANGED rn_episodes
     ELSE IF rn_cfg.episodes > 0
     THEN /\ rn_episodes' = rn_episodes + 1
          /\ rn_err' = "NotImplementedError"
     ELSE UNCHANGED <<rn_episodes, rn_err>>
  /\ UNCHANGED <<rn_cfg, rn_agent, rn_trainer, rn_restored>>

\* run's finally clause: trainer.close().
RN_close ==
  /\ rn_pc = "exiting"
  /\ rn_pc' = "done"
  /\ rn_err' = IF rn_trainer = "OnPolicyTrainer" THEN "NotImplementedError" ELSE rn_err
  /\ UNCHANGED <<rn_cfg, rn_agent, rn_trainer, rn_restored, rn_episodes>>

\* ---------------------------------------------- agent save / load, metrics
\* BaseAgent._get_training_state: the metrics snapshot.
GetTrainingState(m, w) ==
  [ window_size |-> w, total_episodes |-> m.total_episodes, total_steps |-> m.total_steps,
    total_reward |-> m.total_reward, reward_window |-> m.rewards,
    length_window |-> m.lengths, loss_window |-> m.losses ]

\* for x in items: d.append(x), on a deque of maxlen w.
RECURSIVE AppendAll(_, _, _)
AppendAll(d, items, w) ==
  IF items = <<>> THEN d ELSE AppendAll(DequeAppend(d, Head(items), w), Tail(items), w)

\* BaseAgent._load_training_state: a new tracker of the saved window size, the
\* windows appended element by element, the counters assigned.
LoadTrainingState(ts) ==
  [ rewards |-> AppendAll(<<>>, ts.reward_window, ts.window_size),
    lengths |-> AppendAll(<<>>, ts.length_window, ts.window_size),
    losses |-> AppendAll(<<>>, ts.loss_window, ts.window_size),
    total_episodes |-> ts.total_episodes, total_steps |-> ts.total_steps,
    total_reward |-> ts.total_reward ]

\* agent.save(path): BaseAgent writes network, optimizer, config and training
\* state; RandomAgent writes agent_type and config only.
AgentSave(a) ==
  IF a.class = "RandomAgent"
  THEN [keys |-> {"agent_type", "config"}, training_state |-> <<>>]
  ELSE [keys |-> {"network_state", "optimizer_state", "config", "training_state"},
        training_state |-> <<GetTrainingState(a.metrics, a.window)>>]

\* agent.load(path) of a payload the same agent saved: BaseAgent restores the
\* training state; RandomAgent assigns config and nothing else.
AgentLoad(a, payload) ==
  IF a.class = "RandomAgent" THEN a
  ELSE [a EXCEPT !.metrics = LoadTrainingState(payload.training_state[1]),
                 !.window = payload.training_state[1].window_size]

AGInitWith(class, w) ==
  /\ ag = [class |-> class, window |-> w, metrics |-> MetricsInit]
  /\ ag_file = <<>>
  /\ ag_last = [op |-> "init", ops |-> 0]

AGInitIdle == AGInitWith("RandomAgent", 1)

AGInit == \E class \in AgentClasses, w \in 1..MaxWindow : AGInitWith(class, w)

\* agent.metrics.update(reward, length, loss)
AG_metrics_update(u) ==
  /\ ag_last.ops < MaxAgentOps
  /\ ag' = [ag EXCEPT !.metrics = MetricsUpdate(ag.metrics, ag.window, u[1], u[2], u[3])]
  /\ ag_last' = [op |-> "update", ops |-> ag_last.ops + 1]
  /\ UNCHANGED ag_file

\* agent.save(path)
AG_save ==
  /\ ag_last.ops < MaxAgentOps
  /\ ag_file' = << [payload |-> AgentSave(ag), at_save |-> ag] >>
  /\ ag_last' = [op |-> "save", ops |-> ag_last.ops + 1]
  /\ UNCHANGED ag

\* agent.load(path) of the file the agent saved.
AG_load ==
  /\ ag_last.ops < MaxAgentOps
  /\ ag_file # <<>>
  /\ ag' = AgentLoad(ag, ag_file[1].payload)
  /\ ag_last' = [op |-> "load", ops |-> ag_last.ops + 1]
  /\ UNCHANGED ag_file

ExtInitIdle ==
  WFInitIdle /\ FSInitIdle /\ TMInitIdle /\ CKInitIdle /\ RNInitIdle /\ AGInitIdle

\* ------------------------------------------------ Trainer and its caller
\* "Trainer" stands for a concrete subclass that implements train_episode only.
TrainerClasses == {"Trainer", "OffPolicyTrainer", "OnPolicyTrainer"}

Cadences == {None} \cup (1..MaxCadence)

\* The configurations of a run. An evaluation-only run reads no training key,
\* eval_episodes is read only when an evaluation can run, and
\* reset_stats_on_episode is read by NormalizeObservations only.
Configs ==
  { c \in [ trainer : TrainerClasses, chain : Chains, eval_only : BOOLEAN,
            num_episodes : 0..MaxEpisodes, eval_every : Cadences,
            eval_episodes : 0..MaxEvalEpisodes, checkpoint_every : Cadences,
            reset_stats_on_episode : BOOLEAN ] :
      /\ c.eval_only => (c.num_episodes = 0 /\ c.eval_every = None /\ c.checkpoint_every = None)
      /\ (~c.eval_only /\ c.eval_every = None) => c.eval_episodes = 0
      /\ c.reset_stats_on_episode => \E k \in 1..Len(c.chain) : c.chain[k] = "normalize_observations" }

TRInitWith(c) ==
  /\ config = c
  /\ pc = "idle"
  /\ episode_idx = 0
  /\ eval_count = 0
  /\ steps = 0
  /\ wr = WrInit
  /\ err = "none"
  /\ files = {}
  /\ env_closed = FALSE
  /\ agent_closed = FALSE
  /\ metrics = MetricsInit
  /\ calls = <<>>
  /\ ep_active = FALSE
  /\ ep_done = [count |-> 0, length_sum |-> 0, eval_points |-> 0]
  /\ evals = <<>>
  /\ in_eval = FALSE
  /\ train_exited = FALSE

TRInitIdle ==
  TRInitWith([ trainer |-> "Trainer", chain |-> <<>>, eval_only |-> FALSE,
               num_episodes |-> 0, eval_every |-> None, eval_episodes |-> 0,
               checkpoint_every |-> None, reset_stats_on_episode |-> FALSE ])

TRInit == \E c \in Configs : TRInitWith(c)

\* for episode_idx in range(num_episodes)
InRange_inclusive(i, n) == i <= n

InRange(i, n) == i < n

\* if eval_every and (episode_idx + 1) % eval_every == 0
EvalDue_onIndex(i, e) == Truthy(e) /\ i % e = 0

EvalDue(i, e) == Truthy(e) /\ (i + 1) % e = 0

\* if checkpoint_every and (episode_idx + 1) % checkpoint_every == 0
CheckpointDue(i, p) == Truthy(p) /\ (i + 1) % p = 0

\* Trainer._checkpoint_path: checkpoint_{episode_index + 1}.pt, by its number.
CheckpointPath(i) == i + 1

\* select_action(obs, training=False) in Trainer.evaluate.
EvalSelectTraining == FALSE

\* The end of Trainer.evaluate: set_env_training_mode(self.env, True).
RestoreTrainingMode_skipped(w) == w

RestoreTrainingMode(w) == SetEnvTrainingMode(w, TRUE)

\* Trainer.evaluate up to its episode loop, called after episode `after`.
EvaluateEnter(after) ==
  /\ wr' = SetEnvTrainingMode(wr, FALSE)
  /\ eval_count' = 0
  /\ in_eval' = TRUE
  /\ evals' = Append(evals, [after |-> after, episodes |-> 0, greedy |-> TRUE, returned |-> FALSE])

\* ExperimentRunner.run_training -> Trainer.train up to its loop.
RunTraining ==
  /\ pc = "idle"
  /\ ~config.eval_only
  /\ IF config.trainer = "OnPolicyTrainer"
     THEN /\ pc' = "exited"
          /\ err' = "NotImplementedError"
          /\ train_exited' = TRUE
          /\ UNCHANGED <<wr, episode_idx>>
     ELSE /\ wr' = SetEnvTrainingMode(wr, TRUE)
          /\ episode_idx' = 0
          /\ pc' = "loop"
          /\ UNCHANGED <<err, train_exited>>
  /\ UNCHANGED <<auxVars, config, eval_count, steps, files, env_closed, agent_closed, metrics,
                 calls, ep_active, ep_done, evals, in_eval>>

\* ExperimentRunner.run_evaluation_only -> Trainer.evaluate up to its loop.
RunEvaluationOnly ==
  /\ pc = "idle"
  /\ config.eval_only
  /\ IF config.trainer = "OnPolicyTrainer"
     THEN /\ pc' = "exited"
          /\ err' = "NotImplementedError"
          /\ UNCHANGED <<wr, eval_count, in_eval, evals>>
     ELSE /\ EvaluateEnter(None)
          /\ pc' = "eval_loop"
          /\ UNCHANGED err
  /\ UNCHANGED <<auxVars, config, episode_idx, steps, files, env_closed, agent_closed, metrics,
                 calls, ep_active, ep_done, train_exited>>

\* The loop head of Trainer.train: before_episode and the call of train_episode,
\* or the end of the loop.
LoopHead ==
  /\ pc = "loop"
  /\ IF InRange(episode_idx, config.num_episodes)
     THEN /\ calls' = Append(calls, episode_idx)
          /\ IF config.trainer = "OffPolicyTrainer"
             THEN /\ pc' = "finally"
                  /\ err' = "NotImplementedError"
                  /\ UNCHANGED ep_active
             ELSE /\ pc' = "episode_reset"
                  /\ ep_active' = TRUE
                  /\ UNCHANGED err
     ELSE /\ pc' = "finally"
          /\ UNCHANGED <<calls, err, ep_active>>
  /\ UNCHANGED <<auxVars, config, episode_idx, eval_count, steps, wr, files, env_closed,
                 agent_closed, metrics, ep_done, evals, in_eval, train_exited>>

\* train_episode of the concrete subclass: env.reset().
TrainEpisodeReset ==
  /\ pc = "episode_reset"
  /\ wr' = ChainReset(Len(config.chain), wr)
  /\ steps' = 0
  /\ pc' = "episode_step"
  /\ UNCHANGED <<auxVars, config, episode_idx, eval_count, err, files, env_closed, agent_closed,
                 metrics, calls, ep_active, ep_done, evals, in_eval, train_exited>>

\* train_episode of the concrete subclass: one select_action / env.step; on the
\* episode's end it returns and Trainer.train runs the after_episode hook.
TrainEpisodeStep ==
  /\ pc = "episode_step"
  /\ \E o \in EnvOutcomes(steps + 1 >= MaxSteps) :
       LET r == ChainStep(Len(config.chain), wr, o)
       IN /\ wr' = r.w
          /\ IF r.exc # "none"
             THEN /\ pc' = "finally"
                  /\ err' = r.exc
                  /\ ep_active' = FALSE
                  /\ UNCHANGED <<steps, ep_done>>
             ELSE IF o.terminated \/ o.truncated
             THEN /\ pc' = "eval_check"
                  /\ ep_active' = FALSE
                  /\ ep_done' = [ep_done EXCEPT !.count = @ + 1, !.length_sum = @ + steps + 1]
                  /\ UNCHANGED <<steps, err>>
             ELSE /\ steps' = steps + 1
                  /\ UNCHANGED <<pc, err, ep_active, ep_done>>
  /\ UNCHANGED <<auxVars, config, episode_idx, eval_count, files, env_closed, agent_closed,
                 metrics, calls, evals, in_eval, train_exited>>

\* Trainer.train after after_episode: the periodic evaluation, if due.
EvalCheckBody ==
  /\ ep_done' = [ep_done EXCEPT !.eval_points = @ + 1]
  /\ IF EvalDue(episode_idx, config.eval_every)
     THEN /\ EvaluateEnter(episode_idx)
          /\ pc' = "eval_loop"
     ELSE /\ pc' = "ckpt_check"
          /\ UNCHANGED <<wr, eval_count, in_eval, evals>>
  /\ UNCHANGED <<auxVars, config, episode_idx, steps, err, files, env_closed, agent_closed,
                 metrics, calls, ep_active, train_exited>>

EvalCheck_midEpisode == pc \in {"eval_check", "episode_step"} /\ EvalCheckBody

EvalCheck == pc = "eval_check" /\ EvalCheckBody

\* Trainer.evaluate's episode loop: env.reset() for the next episode, or the end:
\* restore training mode and return (to train's after_evaluation, or to the runner).
EvalLoop ==
  /\ pc = "eval_loop"
  /\ IF eval_count < config.eval_episodes
     THEN /\ wr' = ChainReset(Len(config.chain), wr)
          /\ steps' = 0
          /\ pc' = "eval_step"
          /\ UNCHANGED <<in_eval, evals>>
     ELSE /\ wr' = RestoreTrainingMode(wr)
          /\ in_eval' = FALSE
          /\ evals' = [evals EXCEPT ![Len(evals)].returned = TRUE]
          /\ pc' = IF config.eval_only THEN "exited" ELSE "ckpt_check"
          /\ UNCHANGED steps
  /\ UNCHANGED <<auxVars, config, episode_idx, eval_count, err, files, env_closed, agent_closed,
                 metrics, calls, ep_active, ep_done, train_exited>>

\* Trainer.evaluate's inner loop: select_action(obs, training=False), env.step.
EvalStep ==
  /\ pc = "eval_step"
  /\ \E o \in EnvOutcomes(steps + 1 >= MaxSteps) :
       LET r == ChainStep(Len(config.chain), wr, o)
           acted == [evals EXCEPT ![Len(evals)].greedy = @ /\ ~EvalSelectTraining]
       IN /\ wr' = r.w
          /\ IF r.exc # "none"
             THEN /\ pc' = IF config.eval_only THEN "exited" ELSE "finally"
                  /\ err' = r.exc
                  /\ in_eval' = FALSE
                  /\ evals' = acted
                  /\ UNCHANGED <<steps, eval_count>>
             ELSE IF o.terminated \/ o.truncated
             THEN /\ pc' = "eval_loop"
                  /\ eval_count' = eval_count + 1
                  /\ evals' = [acted EXCEPT ![Len(evals)].episodes = @ + 1]
                  /\ UNCHANGED <<steps, err, in_eval>>
             ELSE /\ steps' = steps + 1
                  /\ evals' = acted
                  /\ UNCHANGED <<pc, err, in_eval, eval_count>>
  /\ UNCHANGED <<auxVars, config, episode_idx, files, env_closed, agent_closed, metrics, calls,
                 ep_active, ep_done, train_exited>>

\* The files of one save_checkpoint(path, metadata={"episode": i}) call.
SavedFiles(i, outcome) ==
  (IF outcome = "primary_failed" THEN {}
   ELSE {[path |-> CheckpointPath(i), sidecar |-> FALSE, episode |-> None]})
  \cup
  (IF outcome = "ok"
   THEN {[path |-> CheckpointPath(i), sidecar |-> TRUE, episode |-> i]}
   ELSE {})

\* Trainer.train: the periodic checkpoint, if due, and the next loop iteration.
Checkpoint ==
  /\ pc = "ckpt_check"
  /\ IF CheckpointDue(episode_idx, config.checkpoint_every)
     THEN IF config.trainer = "OffPolicyTrainer"
          THEN /\ pc' = "finally"
               /\ err' = "NotImplementedError"
               /\ UNCHANGED <<files, episode_idx>>
          ELSE \E outcome \in SaveOutcomes :
                 /\ files' = files \cup SavedFiles(episode_idx, outcome)
                 /\ IF outcome = "ok"
                    THEN /\ pc' = "loop"
                         /\ episode_idx' = episode_idx + 1
                         /\ UNCHANGED err
                    ELSE /\ pc' = "finally"
                         /\ err' = "OSError"
                         /\ UNCHANGED episode_idx
     ELSE /\ pc' = "loop"
          /\ episode_idx' = episode_idx + 1
          /\ UNCHANGED <<files, err>>
  /\ UNCHANGED <<auxVars, config, eval_count, steps, wr, env_closed, agent_closed, metrics,
                 calls, ep_active, ep_done, evals, in_eval, train_exited>>

\* Trainer.train's finally clause: the after_training hook, which does nothing.
Finally ==
  /\ pc = "finally"
  /\ pc' = "exited"
  /\ train_exited' = TRUE
  /\ UNCHANGED <<auxVars, config, episode_idx, eval_count, steps, wr, err, files, env_closed,
                 agent_closed, metrics, calls, ep_active, ep_done, evals, in_eval>>

\* trainer.close(), called by ExperimentRunner.run's finally clause (or by the
\* code that drove the trainer directly).
Close ==
  /\ pc = "exited"
  /\ pc' = "finished"
  /\ IF config.trainer = "OnPolicyTrainer"
     THEN /\ err' = "NotImplementedError"
          /\ UNCHANGED <<env_closed, agent_closed>>
     ELSE /\ env_closed' = TRUE
          /\ agent_closed' = TRUE
          /\ UNCHANGED err
  /\ UNCHANGED <<auxVars, config, episode_idx, eval_count, steps, wr, files, metrics, calls,
                 ep_active, ep_done, evals, in_eval, train_exited>>

Next ==
  \/ RunTraining
  \/ RunEvaluationOnly
  \/ LoopHead
  \/ TrainEpisodeReset
  \/ TrainEpisodeStep
  \/ EvalCheck
  \/ EvalLoop
  \/ EvalStep
  \/ Checkpoint
  \/ Finally
  \/ Close

Init == RBInitIdle /\ EBInit /\ MTInitIdle /\ NZInitIdle /\ TRInit /\ ExtInitIdle

Spec == Init /\ [][Next]_vars

\* --------------------------------------------------------- specifications
ReplayAdd == (\E t \in Transitions : RB_add(t)) /\ UNCHANGED <<ebVars, mtVars, nzVars, trVars, extVars>>

ReplayClear == RB_clear /\ UNCHANGED <<ebVars, mtVars, nzVars, trVars, extVars>>

ReplaySample == (\E k \in 0..MaxBatch : RB_sample(k)) /\ UNCHANGED <<ebVars, mtVars, nzVars, trVars, extVars>>

ReplayNext == ReplayAdd \/ ReplayClear \/ ReplaySample

ReplayInit == RBInit /\ EBInit /\ MTInitIdle /\ NZInitIdle /\ TRInitIdle /\ ExtInitIdle

SpecReplay == ReplayInit /\ [][ReplayNext]_vars

EpisodeAddStep == (\E s \in Steps : EB_add_step(s)) /\ UNCHANGED <<rbVars, mtVars, nzVars, trVars, extVars>>

EpisodeClear == EB_clear /\ UNCHANGED <<rbVars, mtVars, nzVars, trVars, extVars>>

EpisodeResetCurrent == EB_reset_current_episode /\ UNCHANGED <<rbVars, mtVars, nzVars, trVars, extVars>>

EpisodeNext == EpisodeAddStep \/ EpisodeClear \/ EpisodeResetCurrent

EpisodeInit == RBInitIdle /\ EBInit /\ MTInitIdle /\ NZInitIdle /\ TRInitIdle /\ ExtInitIdle

SpecEpisode == EpisodeInit /\ [][EpisodeNext]_vars

MetricsUpdateCall == (\E u \in MetricUpdates : MT_update(u)) /\ UNCHANGED <<rbVars, ebVars, nzVars, trVars, extVars>>

MetricsReset == MT_reset /\ UNCHANGED <<rbVars, ebVars, nzVars, trVars, extVars>>

MetricsGetEpisodeStats == MT_get_episode_stats /\ UNCHANGED <<rbVars, ebVars, nzVars, trVars, extVars>>

MetricsNext == MetricsUpdateCall \/ MetricsReset \/ MetricsGetEpisodeStats

MetricsSpecInit == RBInitIdle /\ EBInit /\ MTInit /\ NZInitIdle /\ TRInitIdle /\ ExtInitIdle

SpecMetrics == MetricsSpecInit /\ [][MetricsNext]_vars

NormSetTraining ==
  (\E flag \in BOOLEAN : NZ_set_training(flag)) /\ UNCHANGED <<rbVars, ebVars, mtVars, trVars, extVars>>

NormObsStepCall ==
  (\E obs \in NormSamples : NZ_obs_step(obs)) /\ UNCHANGED <<rbVars, ebVars, mtVars, trVars, extVars>>

NormObsResetCall == NZ_obs_reset /\ UNCHANGED <<rbVars, ebVars, mtVars, trVars, extVars>>

NormRewStepCall ==
  (\E reward \in NormSamples : NZ_rew_step(reward)) /\ UNCHANGED <<rbVars, ebVars, mtVars, trVars, extVars>>

NormNext == NormSetTraining \/ NormObsStepCall \/ NormObsResetCall \/ NormRewStepCall

NormInit == RBInitIdle /\ EBInit /\ MTInitIdle /\ NZInit /\ TRInitIdle /\ ExtInitIdle

SpecNorm == NormInit /\ [][NormNext]_vars

CoreInitIdle == RBInitIdle /\ EBInit /\ MTInitIdle /\ NZInitIdle /\ TRInitIdle

FactoryCreateEnv == EF_create_env /\ UNCHANGED <<coreVars, fsVars, tmVars, ckVars, rnVars, agVars>>

FactoryApplyWrappers == EF_apply_wrappers /\ UNCHANGED <<coreVars, fsVars, tmVars, ckVars, rnVars, agVars>>

FactoryNext == FactoryCreateEnv \/ FactoryApplyWrappers

FactoryInit == CoreInitIdle /\ WFInit /\ FSInitIdle /\ TMInitIdle /\ CKInitIdle /\ RNInitIdle /\ AGInitIdle

SpecFactory == FactoryInit /\ [][FactoryNext]_vars

FramesReset == (\E obs \in Observations : FS_reset(obs)) /\ UNCHANGED <<coreVars, wfVars, tmVars, ckVars, rnVars, agVars>>

FramesStep == (\E obs \in Observations : FS_step(obs)) /\ UNCHANGED <<coreVars, wfVars, tmVars, ckVars, rnVars, agVars>>

FramesClear == FS_clear_frames /\ UNCHANGED <<coreVars, wfVars, tmVars, ckVars, rnVars, agVars>>

FramesNext == FramesReset \/ FramesStep \/ FramesClear

FramesInit == CoreInitIdle /\ WFInitIdle /\ FSInit /\ TMInitIdle /\ CKInitIdle /\ RNInitIdle /\ AGInitIdle

SpecFrames == FramesInit /\ [][FramesNext]_vars

ModeSet ==
  (\E flag \in BOOLEAN : TM_set_env_training_mode(flag))
  /\ UNCHANGED <<coreVars, wfVars, fsVars, ckVars, rnVars, agVars>>

\* The caller switches back: a second call with the other flag.
ModeRestore ==
  /\ tm_last.op = "set_env_training_mode"
  /\ TM_set_env_training_mode(~tm_last.flag)
  /\ UNCHANGED <<coreVars, wfVars, fsVars, ckVars, rnVars, agVars>>

ModeNext == ModeSet \/ ModeRestore

ModeInit == CoreInitIdle /\ WFInitIdle /\ FSInitIdle /\ TMInit /\ CKInitIdle /\ RNInitIdle /\ AGInitIdle

SpecMode == ModeInit /\ [][ModeNext]_vars

CheckpointSave ==
  (\E path \in Paths, metadata \in Metadata, outcome \in SaveOutcomes :
     CK_save_checkpoint(path, metadata, outcome))
  /\ UNCHANGED <<coreVars, wfVars, fsVars, tmVars, rnVars, agVars>>

CheckpointLoad ==
  (\E path \in Paths : CK_load_checkpoint(path)) /\ UNCHANGED <<coreVars, wfVars, fsVars, tmVars, rnVars, agVars>>

CheckpointAgentUpdate == CK_agent_update /\ UNCHANGED <<coreVars, wfVars, fsVars, tmVars, rnVars, agVars>>

CheckpointLoseSidecar ==
  (\E path \in Paths : CK_lose_sidecar(path)) /\ UNCHANGED <<coreVars, wfVars, fsVars, tmVars, rnVars, agVars>>

CheckpointForeignFile ==
  (\E path \in Paths : CK_foreign_file(path)) /\ UNCHANGED <<coreVars, wfVars, fsVars, tmVars, rnVars, agVars>>

CheckpointNext ==
  \/ CheckpointSave
  \/ CheckpointLoad
  \/ CheckpointAgentUpdate
  \/ CheckpointLoseSidecar
  \/ CheckpointForeignFile

CheckpointInit == CoreInitIdle /\ WFInitIdle /\ FSInitIdle /\ TMInitIdle /\ CKInit /\ RNInitIdle /\ AGInitIdle

SpecCheckpoint == CheckpointInit /\ [][CheckpointNext]_vars

notRn == <<coreVars, wfVars, fsVars, tmVars, ckVars, agVars>>

RunnerCreate == RN_create /\ UNCHANGED notRn

RunnerSelectTrainer == RN_select_trainer /\ UNCHANGED notRn

RunnerLoadCheckpoint == RN_load_checkpoint_if_configured /\ UNCHANGED notRn

RunnerEvaluationOnly == RN_run_evaluation_only /\ UNCHANGED notRn

RunnerEvaluateEpisode == RN_evaluate_episode /\ UNCHANGED notRn

RunnerTraining == RN_run_training /\ UNCHANGED notRn

RunnerClose == RN_close /\ UNCHANGED notRn

RunnerNext ==
  \/ RunnerCreate
  \/ RunnerSelectTrainer
  \/ RunnerLoadCheckpoint
  \/ RunnerEvaluationOnly
  \/ RunnerEvaluateEpisode
  \/ RunnerTraining
  \/ RunnerClose

RunnerInit ==
  CoreInitIdle /\ WFInitIdle /\ FSInitIdle /\ TMInitIdle /\ CKInitIdle /\ RNInit /\ AGInitIdle

SpecRunner == RunnerInit /\ [][RunnerNext]_vars

notAg == <<coreVars, wfVars, fsVars, tmVars, ckVars, rnVars>>

AgentMetricsUpdate == (\E u \in MetricUpdates : AG_metrics_update(u)) /\ UNCHANGED notAg

AgentSaveCall == AG_save /\ UNCHANGED notAg

AgentLoadCall == AG_load /\ UNCHANGED notAg

AgentNext == AgentMetricsUpdate \/ AgentSaveCall \/ AgentLoadCall

AgentInit ==
  CoreInitIdle /\ WFInitIdle /\ FSInitIdle /\ TMInitIdle /\ CKInitIdle /\ RNInitIdle /\ AGInit

SpecAgent == AgentInit /\ [][AgentNext]_vars

\* ------------------------------------------------------------------ claims
\* C1: after n add calls on an initially empty buffer of capacity C (no clear in
\* between) the buffer holds exactly the last min(n, C) added transitions in
\* insertion order, and its length never exceeds C.
C1_FifoRetention ==
  /\ rb_buffer = LastN(rb_added, Min(Len(rb_added), rb_max_size))
  /\ RB_len <= rb_max_size

\* C1 witness: two more adds than the capacity holds, so two were evicted.
C1_Witness ==
  /\ rb_max_size >= 2
  /\ Len(rb_added) = rb_max_size + 2
  /\ rb_added[1] # rb_added[3]

\* C3: after add_step with terminal = true the newest entry of the completed
\* queue is exactly the steps added since the previous terminal step, the
\* terminal step included, and the in-progress sequence is empty.
C3_TerminalMovesEpisode ==
  (eb_last.op = "add_step" /\ eb_last.done) =>
    /\ Len(eb_buffer) >= 1
    /\ EB_episodes[Len(eb_buffer)] = eb_last.episode
    /\ EB_current_episode = <<>>

\* C2: Trainer.evaluate leaves the transition buffer's length and the running
\* mean/variance of every normalization wrapper in the chain exactly as they were
\* when the evaluation started: no step taken inside evaluate changes them.
C2_EvaluationReadOnly ==
  [][in_eval => (Stats(wr') = Stats(wr) /\ RB_len' = RB_len)]_vars

\* C4: whenever Trainer.train has exited, normally or by an exception, close has
\* been called on the environment and on the agent.
C4_ResourcesReleasedOnExit ==
  train_exited => (env_closed /\ agent_closed)

\* C5: a train(num_episodes = N) call that completes without error has called
\* train_episode exactly once for each index 0..N-1, in increasing order, and for
\* no other index; at every moment the calls made so far are 0, 1, 2, ... in order.
C5_EpisodesInOrder ==
  /\ \A j \in 1..Len(calls) : calls[j] = j - 1
  /\ (train_exited /\ err = "none") => Len(calls) = config.num_episodes

\* C5 witness: a train call of at least two episodes has completed without error.
C5_Witness ==
  /\ train_exited
  /\ err = "none"
  /\ config.num_episodes >= 2
  /\ Len(calls) >= 2

\* C6: with eval_every = E >= 1 an evaluation is run after episode i if and only
\* if E divides i + 1, once; every evaluation that returns has run exactly
\* eval_episodes complete episodes, each action chosen with training = false; with
\* eval_every = None the training loop runs no evaluation.
C6_EvaluationCadence ==
  LET E == config.eval_every
      K == config.eval_episodes
  IN /\ \A i \in 0..(ep_done.eval_points - 1) :
          (\E j \in 1..Len(evals) : evals[j].after = i)
            <=> (E # None /\ E >= 1 /\ (i + 1) % E = 0)
     /\ \A j, k \in 1..Len(evals) : evals[j].after = evals[k].after => j = k
     /\ \A j \in 1..Len(evals) :
          /\ evals[j].returned => evals[j].episodes = K
          /\ evals[j].greedy
          /\ evals[j].after # None => evals[j].after < ep_done.count
     /\ (~config.eval_only /\ E = None) => evals = <<>>

\* C6 witness: with eval_every = 2 the evaluation after episode 1 has returned,
\* having run two complete episodes; no evaluation followed episode 0.
C6_Witness ==
  /\ config.eval_every = 2
  /\ config.eval_episodes = 2
  /\ ep_done.eval_points >= 2
  /\ \E j \in 1..Len(evals) : evals[j].after = 1 /\ evals[j].returned

\* C7: with checkpoint_every = P >= 1 a checkpoint is persisted after episode i
\* if and only if P divides i + 1, at the path derived from i and tagged with i, so
\* a train call of N episodes that did not fail in the environment or in the file
\* system has persisted floor(N / P) checkpoints, whatever the trainer class.
C7_CheckpointCadence ==
  LET P == config.checkpoint_every
      due == { i \in 0..(config.num_episodes - 1) : (i + 1) % P = 0 }
  IN (train_exited /\ err \in {"none", "NotImplementedError"} /\ P # None) =>
       files = { [path |-> i + 1, sidecar |-> FALSE, episode |-> None] : i \in due }
               \cup { [path |-> i + 1, sidecar |-> TRUE, episode |-> i] : i \in due }

\* C8: evaluation and checkpointing happen only between episodes: every step that
\* belongs to an evaluation or writes a checkpoint file is taken while no
\* train_episode call is in progress, and none begins during it.
C8_BetweenEpisodes ==
  [][(in_eval \/ in_eval' \/ files' # files) => (~ep_active /\ ~ep_active')]_vars

\* C8 witness: inside Trainer.train an evaluation has run and returned and a
\* checkpoint has been written after a completed episode, no episode is in
\* progress, and further episodes are still to come.
C8_Witness ==
  /\ ~ep_active
  /\ files # {}
  /\ Len(evals) >= 1
  /\ evals[1].returned
  /\ evals[1].episodes >= 1
  /\ ep_done.count >= 1
  /\ ep_done.count < config.num_episodes

\* C9: during every train_episode call of Trainer.train, every wrapper of the
\* chain that defines set_training has its training flag true, also in the
\* episodes that follow a periodic evaluation.
C9_TrainingModeInEpisodes ==
  ep_active =>
    \A n \in WrapperNames : (InChain(n) /\ HasSetTraining(n)) => wr.training[n]

\* C9 witness: a training episode is in progress after a periodic evaluation
\* returned, with the observation normalizer in the chain.
C9_Witness ==
  /\ ep_active
  /\ InChain("normalize_observations")
  /\ Len(evals) >= 1
  /\ evals[1].returned

\* C10: after the training loop has completed its N episodes the agent's metrics
\* window has received N updates: total_episodes has grown by N and total_steps
\* by the sum of the episode lengths.
C10_MetricsRecorded ==
  (train_exited /\ err = "none") =>
    /\ metrics.total_episodes = config.num_episodes
    /\ metrics.total_steps = ep_done.length_sum

\* C11: sample(k) on a buffer whose length is at least min_size and at least k
\* returns exactly k transitions, taken from k pairwise distinct positions of the
\* contents at the call, and leaves the contents unchanged.
C11_SampleDistinct ==
  (rb_last.op = "sample" /\ Len(rb_last.before) >= rb_min_size
     /\ Len(rb_last.before) >= rb_last.k) =>
    /\ rb_last.exc = "none"
    /\ Len(rb_last.batch) = rb_last.k
    /\ Len(rb_last.indices) = rb_last.k
    /\ \A i \in 1..rb_last.k :
         /\ rb_last.indices[i] \in 1..Len(rb_last.before)
         /\ rb_last.batch[i] = rb_last.before[rb_last.indices[i]]
    /\ \A i, j \in 1..rb_last.k : i # j => rb_last.indices[i] # rb_last.indices[j]
    /\ rb_buffer = rb_last.before

\* C11 witness: a sample of two transitions out of three stored ones, returned
\* in an order other than the stored one.
C11_Witness ==
  /\ rb_last.op = "sample"
  /\ rb_last.exc = "none"
  /\ rb_last.k = 2
  /\ Len(rb_last.before) = 3
  /\ rb_min_size >= 1
  /\ rb_last.indices[1] > rb_last.indices[2]

\* C12: sample(k) always fails with the insufficient-data error when k exceeds
\* the current length or the current length is below min_size, and the failed
\* call leaves the contents unchanged.
C12_SampleRejects ==
  (rb_last.op = "sample"
     /\ (rb_last.k > Len(rb_last.before) \/ Len(rb_last.before) < rb_min_size)) =>
    /\ rb_last.exc = InsufficientDataError
    /\ rb_last.batch = <<>>
    /\ rb_buffer = rb_last.before

\* C12 witness: a sample of one transition is refused on a buffer that holds two
\* transitions but needs three to be ready.
C12_Witness ==
  /\ rb_last.op = "sample"
  /\ rb_last.exc = InsufficientDataError
  /\ rb_last.k = 1
  /\ Len(rb_last.before) = 2
  /\ rb_min_size = 3

\* C13: in every reachable state ready() is true exactly when the number of
\* stored transitions is at least min_size, and a sample(k) issued when ready()
\* was true, with k at most the length, does not fail.
C13_ReadyGate ==
  /\ RB_ready <=> (RB_len >= rb_min_size)
  /\ (rb_last.op = "sample" /\ rb_last.ready /\ rb_last.k <= Len(rb_last.before)) =>
       rb_last.exc = "none"
  /\ (rb_last.op = "sample" /\ ~rb_last.ready) => rb_last.exc # "none"

\* C13 witness: after adds and a clear the buffer has been refilled to exactly
\* min_size transitions, ready() was true and a sample of that many succeeded.
C13_Witness ==
  /\ rb_last.op = "sample"
  /\ rb_last.ready
  /\ rb_min_size >= 2
  /\ Len(rb_last.before) = rb_min_size
  /\ rb_last.k = rb_min_size
  /\ rb_last.exc = "none"
  /\ Len(rb_added) = rb_min_size

\* C14: after n update calls on a tracker of window size W (since construction
\* or the last reset) the reward window holds the last min(n, W) rewards in
\* order, total_episodes = n, total_reward is the sum of all n rewards and
\* total_steps the sum of all n lengths; W = 3 and rewards 1, 2, 3, 4 give the
\* window [2, 3, 4], total_reward 10 and total_episodes 4.
C14_WindowAndTotals ==
  LET n == Len(mt_hist.rewards)
  IN /\ mt.rewards = LastN(mt_hist.rewards, Min(n, mt_window))
     /\ mt.lengths = LastN(mt_hist.lengths, Min(n, mt_window))
     /\ mt.total_episodes = n
     /\ mt.total_reward = SeqSum(mt_hist.rewards)
     /\ mt.total_steps = SeqSum(mt_hist.lengths)
     /\ (mt_window = 3 /\ mt_hist.rewards = <<1, 2, 3, 4>>) =>
          (mt.rewards = <<2, 3, 4>> /\ mt.total_reward = 10 /\ mt.total_episodes = 4)

\* C14 witness: the spec's scenario, window size 3 and rewards 1, 2, 3, 4.
C14_Witness ==
  /\ mt_window = 3
  /\ mt_hist.rewards = <<1, 2, 3, 4>>
  /\ mt_last.op = "update"

\* C15: update appends the loss to the loss window on every call whose loss is
\* not None, a loss of 0 included, and leaves the loss window unchanged only when
\* the loss is None; the reward and length windows and the lifetime counters are
\* updated on every call.
C15_LossRecordedUnlessNone ==
  mt_last.op = "update" =>
    /\ mt.losses = IF mt_last.loss # None
                   THEN DequeAppend(mt_last.pre.losses, mt_last.loss, mt_window)
                   ELSE mt_last.pre.losses
    /\ mt.rewards = DequeAppend(mt_last.pre.rewards, mt_last.reward, mt_window)
    /\ mt.lengths = DequeAppend(mt_last.pre.lengths, mt_last.length, mt_window)
    /\ mt.total_episodes = mt_last.pre.total_episodes + 1
    /\ mt.total_steps = mt_last.pre.total_steps + mt_last.length
    /\ mt.total_reward = mt_last.pre.total_reward + mt_last.reward

\* C16 as stated: between two resets no update call decreases total_episodes,
\* total_steps or total_reward, whatever reward and length it is passed.
C16_CountersNeverDecrease ==
  mt_last.op = "update" =>
    /\ mt.total_episodes >= mt_last.pre.total_episodes
    /\ mt.total_steps >= mt_last.pre.total_steps
    /\ mt.total_reward >= mt_last.pre.total_reward

\* C16 amended: every update call adds one to total_episodes, the length passed
\* to total_steps and the reward passed to total_reward, so between two resets
\* total_episodes never decreases, and total_steps and total_reward do not
\* decrease in a call whose length, respectively reward, is not negative.
C16_CountersGrowByInput ==
  mt_last.op = "update" =>
    /\ mt.total_episodes = mt_last.pre.total_episodes + 1
    /\ mt.total_steps = mt_last.pre.total_steps + mt_last.length
    /\ mt.total_reward = mt_last.pre.total_reward + mt_last.reward
    /\ mt_last.length >= 0 => mt.total_steps >= mt_last.pre.total_steps
    /\ mt_last.reward >= 0 => mt.total_reward >= mt_last.pre.total_reward

\* C16 witness: an update with a positive reward on a tracker whose window is
\* already full and whose total_reward an earlier negative reward had lowered.
C16_Witness ==
  /\ mt_last.op = "update"
  /\ mt_last.reward > 0
  /\ mt_window >= 1
  /\ Len(mt_hist.rewards) > mt_window + 1
  /\ \E i \in 1..(Len(mt_hist.rewards) - 1) : mt_hist.rewards[i] < 0
  /\ mt.total_reward > mt_last.pre.total_reward

\* C17 as stated: get_episode_stats never fails and returns, for each of the
\* three windows that is empty, the zero-valued record (mean, std, min and max
\* all 0), never a missing record.
C17_EmptyWindowsGiveZeroRecord ==
  mt_last.op = "get_episode_stats" =>
    LET r == mt_last.stats[1]
    IN /\ mt_last.exc = "none"
       /\ mt_last.pre.rewards = <<>> => r.reward_stats = <<ZeroStats>>
       /\ mt_last.pre.lengths = <<>> => r.length_stats = <<ZeroStats>>
       /\ mt_last.pre.losses = <<>> => r.losses_stats = <<ZeroStats>>

\* C17 amended: get_episode_stats never fails; it returns the zero-valued record
\* for an empty reward window and for an empty length window, and None as
\* losses_stats exactly when the loss window is empty.
C17_EmptyLossWindowGivesNone ==
  mt_last.op = "get_episode_stats" =>
    LET r == mt_last.stats[1]
    IN /\ mt_last.exc = "none"
       /\ Len(r.reward_stats) = 1 /\ Len(r.length_stats) = 1
       /\ mt_last.pre.rewards = <<>> => r.reward_stats = <<ZeroStats>>
       /\ mt_last.pre.lengths = <<>> => r.length_stats = <<ZeroStats>>
       /\ (r.losses_stats = <<>>) <=> (mt_last.pre.losses = <<>>)

\* C17 witness: get_episode_stats on a tracker of window size 0 that has been
\* updated, with a loss: all three windows are empty.
C17_Witness ==
  /\ mt_last.op = "get_episode_stats"
  /\ mt_window = 0
  /\ mt.total_episodes >= 1
  /\ mt_last.stats[1].reward_stats = <<ZeroStats>>
  /\ mt_last.stats[1].losses_stats = <<>>

\* C18: while the observation normalizer is frozen (set_training(False)), any
\* sequence of step and reset calls leaves its running mean and variance as they
\* were when it was frozen, also with reset_stats_on_episode enabled, and
\* normalizing a fixed input gives the same output as it did then.
C18_FrozenStatsUnchanged ==
  ~nz.training["normalize_observations"] =>
    /\ ObsStats(nz) = nz_frozen.stats
    /\ \A x \in NormSamples :
         Normalize(nz.obs_mean, nz.obs_std, nz_cfg.epsilon, x)
           = Normalize(nz_frozen.stats.mean, nz_frozen.stats.std, nz_cfg.epsilon, x)

\* C18 witness: with reset_stats_on_episode enabled the normalizer was frozen
\* with a mean other than the initial one, and a step and a reset have followed.
C18_Witness ==
  /\ ~nz.training["normalize_observations"]
  /\ nz_cfg.reset_stats_on_episode
  /\ nz_cfg.epsilon > 0
  /\ nz_frozen.stats.mean # 0
  /\ nz_frozen.calls >= 2
  /\ nz_last.op = "obs_reset"

\* C19: for every configuration validation accepts (any numeric epsilon and
\* momentum) and every sequence of samples the running variance stays
\* non-negative and the divisor sqrt(variance) + epsilon of normalize is never 0.
C19_VarianceAndDivisor ==
  /\ nz.obs_std # NaN /\ nz.rew_std # NaN
  /\ (nz_last.op = "obs_step" /\ nz_last.pre.training["normalize_observations"]
        /\ nz_last.pre.obs_std # NaN) =>
       NewVar(nz_last.pre.obs_mean, nz_last.pre.obs_std, nz_last.x, nz_cfg.momentum) >= 0
  /\ nz.obs_std + nz_cfg.epsilon # 0
  /\ nz.rew_std + RewardEpsilon # 0

\* C20: each training-mode update of a normalization wrapper with momentum m
\* sets mean' = m * mean + (1 - m) * sample and
\* variance' = m * variance + (1 - m) * (sample - mean)^2 with the mean before
\* the update; the observation normalizer with its configured momentum, the
\* reward normalizer with 0.99.
C20_UpdateAgainstOldMean ==
  LET x == nz_last.x
      pre == nz_last.pre
      m == nz_cfg.momentum
  IN /\ (nz_last.op = "obs_step" /\ pre.training["normalize_observations"]
           /\ pre.obs_std # NaN) =>
          /\ nz.obs_mean = (m * pre.obs_mean + (Unit - m) * x) \div Unit
          /\ nz.obs_std =
               ISqrt((m * pre.obs_std * pre.obs_std
                        + (Unit - m) * (x - pre.obs_mean) * (x - pre.obs_mean)) \div Unit)
     /\ nz_last.op = "rew_step" =>
          /\ nz.rew_mean = (99 * pre.rew_mean + 1 * x) \div Unit
          /\ nz.rew_std =
               ISqrt((99 * pre.rew_std * pre.rew_std
                        + 1 * (x - pre.rew_mean) * (x - pre.rew_mean)) \div Unit)

\* C20 witness: both normalizers have been updated from a mean other than the
\* sample, the reward normalizer last, so the old and the new mean differ.
C20_Witness ==
  /\ nz_last.op = "rew_step"
  /\ nz_last.x # nz_last.pre.rew_mean
  /\ nz.rew_mean # nz_last.pre.rew_mean
  /\ nz_cfg.momentum = ObsMomentum
  /\ nz.obs_mean # 0
  /\ nz.obs_std # Unit

\* The factory call has returned an environment.
FactoryReturned == wf_pc \in {"built", "applied"}

\* The enabled, registered names of the config.
EnabledKnown == wf_cfg.enabled \cap RegistryNames

\* q lists its names in strictly ascending name order.
Ascending(q) == \A i, j \in 1..Len(q) : i < j => NameRank[q[i]] < NameRank[q[j]]

\* C21: with an explicit order list the chain starts with the enabled names of
\* the list in the list's order (so order = [B, A] with both enabled puts B
\* innermost and A around it, whatever the key order of the mapping), and every
\* enabled transform the list does not name follows, in ascending name order.
C21_ExplicitOrderThenSortedExtras ==
  (FactoryReturned /\ wf_cfg.order_kind = "list") =>
    LET ordered == SelectSeq(wf_cfg.order, LAMBDA n : n \in EnabledKnown)
        rest == SubSeq(wf_chain, Len(ordered) + 1, Len(wf_chain))
    IN /\ Len(wf_chain) >= Len(ordered)
       /\ SubSeq(wf_chain, 1, Len(ordered)) = ordered
       /\ Range(rest) = EnabledKnown \ Range(wf_cfg.order)
       /\ Ascending(rest)
       /\ (Len(wf_cfg.order) = 2 /\ Range(wf_cfg.order) \subseteq EnabledKnown) =>
            (wf_chain[1] = wf_cfg.order[1] /\ wf_chain[2] = wf_cfg.order[2])

\* order = [B, A] with B after A by name, both enabled, the keys of the mapping
\* in descending order, and two enabled transforms outside the list.
C21_Witness ==
  /\ wf_pc = "applied"
  /\ wf_cfg.order_kind = "list"
  /\ wf_cfg.descending
  /\ wf_cfg.order = <<"normalize_rewards", "frame_stack">>
  /\ wf_chain = <<"normalize_rewards", "frame_stack", "base", "normalize_observations">>

\* C22: without an order list the enabled transforms are applied in the order
\* normalize_observations, frame_stack, normalize_rewards, followed by the
\* other enabled transforms in lexicographic name order.
C22_DefaultOrder ==
  (FactoryReturned /\ wf_cfg.order_kind # "list") =>
    LET canonical == SelectSeq(<<"normalize_observations", "frame_stack", "normalize_rewards">>,
                               LAMBDA n : n \in EnabledKnown)
        rest == SubSeq(wf_chain, Len(canonical) + 1, Len(wf_chain))
    IN /\ Len(wf_chain) >= Len(canonical)
       /\ SubSeq(wf_chain, 1, Len(canonical)) = canonical
       /\ Range(rest) = EnabledKnown \ Range(canonical)
       /\ Ascending(rest)

\* All four registered transforms enabled, no order key, descending keys.
C22_Witness ==
  /\ wf_pc = "built"
  /\ wf_cfg.order_kind = "absent"
  /\ wf_cfg.descending
  /\ wf_chain = <<"normalize_observations", "frame_stack", "normalize_rewards", "base">>

\* C23: the chain holds only transforms that are present and enabled, also
\* when the order list names a missing or disabled one, and it is empty (the
\* base environment is returned as it is) when none is enabled.
C23_OnlyEnabledInChain ==
  FactoryReturned =>
    /\ Range(wf_chain) \subseteq (wf_cfg.enabled \cap wf_cfg.present)
    /\ (wf_cfg.enabled = {}) => (wf_chain = <<>>)

\* The order list names a disabled transform and a missing one, next to an
\* enabled one that makes up the whole chain.
C23_Witness ==
  /\ wf_pc = "applied"
  /\ wf_cfg.order_kind = "list"
  /\ \E n \in Range(wf_cfg.order) : n \in (wf_cfg.present \cap RegistryNames) \ wf_cfg.enabled
  /\ \E n \in Range(wf_cfg.order) : n \in RegistryNames \ wf_cfg.present
  /\ wf_chain # <<>>

\* The violations the validation is to report: one per unknown name of the order
\* list, one per unknown key, a malformed order, a stack length below one.
Violations ==
  {<<"unknown_in_order", n>> : n \in Range(wf_cfg.order) \ RegistryNames}
  \cup {<<"unknown_wrapper", n>> : n \in wf_cfg.present \ RegistryNames}
  \cup (IF wf_cfg.order_kind = "string" THEN {<<"order_not_list", "order">>} ELSE {})
  \cup (IF /\ "frame_stack" \in wf_cfg.enabled
           /\ wf_cfg.frame_stack # None
           /\ wf_cfg.frame_stack < 1
        THEN {<<"invalid_param", "frame_stack">>} ELSE {})

\* C24: create_env on a config with violations fails with one error that lists
\* every violation, and returns no (wrapped) environment.
C24_AllViolationsListed ==
  /\ (wf_pc = "failed") => (Violations \subseteq Range(wf_errors) /\ wf_chain = <<>>)
  /\ (wf_pc = "built") => (Violations = {})

\* Four violations of three kinds in one error.
C24_Witness ==
  /\ wf_pc = "failed"
  /\ Cardinality(Violations) >= 3
  /\ wf_cfg.env_name = "CartPole-v1"
  /\ Len(wf_errors) = Cardinality(Violations)

\* C25: when the validation error is raised no environment instance has been
\* constructed.
C25_NoEnvironmentBeforeValidationError ==
  (wf_pc = "failed") => (wf_envs = 0)

\* C26: the stack a reset returns holds the initial observation in each of its
\* K slots; after a reset and n steps the returned stack is the last K of
\* (o0 K times, o1, ..., on), oldest first; a returned stack has length K; and
\* after the first step exactly one slot differs from the reset stack when the
\* observation stepped differs from the initial one.
C26_StackIsLastK ==
  /\ (fs_out # <<>>) => (Len(fs_out) = fs.num_frames)
  /\ (fs_last.op = "reset") => (\A i \in 1..fs.num_frames : fs_out[i] = fs_hist[1])
  /\ (fs_last.op \in {"reset", "step"} /\ fs_hist # <<>>) =>
       (fs_out = LastN(fs_hist, fs.num_frames))
  /\ (fs_last.op = "step" /\ fs_hist # <<>> /\ fs_last.steps = 1
        /\ fs_hist[Len(fs_hist)] # fs_hist[1]) =>
       (Cardinality({i \in 1..fs.num_frames : fs_out[i] # fs_last.reset_out[i]}) = 1)

\* Three slots, a reset on 1 and more steps than slots: the stack has dropped
\* every copy of the initial observation.
C26_Witness ==
  /\ fs.num_frames = 3
  /\ fs_last.op = "step"
  /\ fs_hist = <<1, 1, 1, 2, 0, 2>>
  /\ fs_out = <<2, 0, 2>>

\* C27: a call of set_env_training_mode returns, leaving every link whose
\* set_training works with the flag passed, from the outermost link to the base
\* environment, also below a link whose set_training raised; a link without
\* set_training keeps its state.
C27_EveryHookSwitched ==
  (tm_last.op = "set_env_training_mode") =>
    /\ Len(tm_chain) = Len(tm_last.before)
    /\ \A i \in 1..Len(tm_chain) :
         /\ (tm_chain[i].kind = "hook") => (tm_chain[i].training = tm_last.flag)
         /\ (tm_chain[i].kind = "plain") => (tm_chain[i] = tm_last.before[i])

\* The outermost link raises; the two below it, the base environment included,
\* were in the other mode and are switched.
C27_Witness ==
  /\ tm_last.op = "set_env_training_mode"
  /\ Len(tm_chain) = 3
  /\ tm_chain[1].kind = "raising"
  /\ \A i \in 2..3 : /\ tm_chain[i].kind = "hook"
                     /\ tm_last.before[i].training # tm_last.flag
                     /\ tm_chain[i].training = tm_last.flag

\* C28: when save_checkpoint has exited, normally or by a failure, either the
\* whole checkpoint is on disk (the primary artifact holding the agent's state
\* and, when metadata was given, the sidecar holding it) or neither of its two
\* files has been touched.
C28_SaveAllOrNothing ==
  (ck_last.op = "save_checkpoint") =>
    LET p == ck_last.path
    IN \/ /\ ck_files[p] = <<ck_last.agent.state>>
          /\ (ck_last.metadata # None) => (ck_files[Sidecar(p)] = <<ck_last.metadata>>)
       \/ /\ ck_files[p] = ck_last.files[p]
          /\ ck_files[Sidecar(p)] = ck_last.files[Sidecar(p)]

\* C30: load_checkpoint(path) restores the agent from the primary artifact
\* whatever the state of the sidecar; save_checkpoint without metadata leaves
\* the sidecar's file as it was; and a save that wrote the sidecar, like the loss
\* of a sidecar, leaves in the primary artifact what agent.save wrote.
C30_PrimaryAndSidecarIndependent ==
  LET p == ck_last.path
  IN /\ (ck_last.op = "load_checkpoint" /\ Loadable(ck_last.files, p)) =>
          (ck_agent.state = ck_last.files[p][1] /\ ck_last.err = "none")
     /\ (ck_last.op = "save_checkpoint" /\ ck_last.metadata = None) =>
          (ck_files[Sidecar(p)] = ck_last.files[Sidecar(p)])
     /\ (ck_last.op = "save_checkpoint" /\ ck_last.metadata # None /\ ck_last.outcome = "ok") =>
          (ck_files[p] = <<ck_last.agent.state>> /\ ck_files[Sidecar(p)] = <<ck_last.metadata>>)
     /\ (ck_last.op = "lose_sidecar") =>
          (\A q \in Paths : ck_files[q] = ck_last.files[q])

\* A load from a checkpoint whose sidecar does not exist that changed the
\* agent's state to the one saved.
C30_Witness ==
  /\ ck_last.op = "load_checkpoint"
  /\ Loadable(ck_last.files, ck_last.path)
  /\ ck_last.files[Sidecar(ck_last.path)] = <<>>
  /\ ck_agent.state # ck_last.agent.state

\* C29: with a resume path configured, whichever trainer select_trainer has
\* picked, no training or evaluation episode has begun before the agent's state
\* was restored from the checkpoint.
C29_RestoredBeforeFirstEpisode ==
  (ResumePath(rn_cfg) # None /\ rn_episodes > 0) => rn_restored

C32_SameSurroundingLoop ==
  (train_exited /\ config.trainer \in {"OffPolicyTrainer", "OnPolicyTrainer"}
     /\ config.num_episodes >= 1) =>
    (Len(calls) >= 1 /\ calls[1] = 0)

\* EpisodeBuffer.get_episode_count
GetEpisodeCount == Len(eb_buffer)

\* EpisodeBuffer.get_episode_lengths
GetEpisodeLengths == [i \in 1..Len(eb_buffer) |-> Len(EB_episodes[i])]

\* EpisodeBuffer.get_episode_rewards: sum(step[2] for step in episode) per episode.
GetEpisodeRewards ==
  [i \in 1..Len(eb_buffer) |->
     SeqSum([k \in 1..Len(EB_episodes[i]) |-> EB_episodes[i][k][3]])]

\* An episode as it is when it completes: steps that are not terminal, then one
\* that is.
IsCompleteEpisode(ep) ==
  /\ ep # <<>>
  /\ ep[Len(ep)][4]
  /\ \A k \in 1..(Len(ep) - 1) : ~ep[k][4]

\* C33: get_episode_lengths and get_episode_rewards have one entry per completed
\* episode, in completion order, holding its number of steps and the sum of its
\* step rewards; so right after the add_step that completes an episode their
\* last entries are that episode's.
C33_AggregatesPerEpisode ==
  /\ Len(GetEpisodeLengths) = GetEpisodeCount
  /\ Len(GetEpisodeRewards) = GetEpisodeCount
  /\ (eb_last.op = "add_step" /\ eb_last.done) =>
       /\ GetEpisodeCount >= 1
       /\ GetEpisodeLengths[GetEpisodeCount] = Len(eb_last.episode)
       /\ GetEpisodeRewards[GetEpisodeCount] =
            SeqSum([k \in 1..Len(eb_last.episode) |-> eb_last.episode[k][3]])

\* C39: a call other than clear leaves every completed episode in the queue with
\* the contents it had, and what get_episode and get_all_episodes return are
\* completed episodes only, never the steps of the episode in progress.
C39_CompletedEpisodesFrozen ==
  [][ /\ (eb_last'.op # "clear") =>
           /\ Len(eb_buffer') >= Len(eb_buffer)
           /\ \A i \in 1..Len(eb_buffer) : EB_episodes'[i] = EB_episodes[i]
      /\ \A i \in 1..Len(eb_buffer') : IsCompleteEpisode(EB_episodes'[i]) ]_vars

\* What NormalizeRewards.step hands back for the inner reward: the call of
\* self._normalize, a method the class does not define (it defines
\* _normalize_reward), raises AttributeError before anything is returned.
NormRewStepResult(w, reward) == [exc |-> "AttributeError", reward |-> None]

\* C34: every NormalizeRewards.step returns the inner reward normalized with the
\* statistics as they are after the call, (reward - mean) / (std + epsilon), and
\* changes the statistics only while the training flag is true.
C34_RewardNormalizedOnEveryStep ==
  (nz_last.op = "rew_step") =>
    LET r == NormRewStepResult(nz_last.pre, nz_last.x)
    IN /\ r.exc = "none"
       /\ r.reward = Normalize(nz.rew_mean, nz.rew_std, RewardEpsilon, nz_last.x)
       /\ (~nz_last.pre.training["normalize_rewards"]) =>
            (nz.rew_mean = nz_last.pre.rew_mean /\ nz.rew_std = nz_last.pre.rew_std)

\* C35: after a load of the file a save wrote, the agent's metrics (the three
\* windows, the window size, the three lifetime counters) are those it had at
\* the save, whatever updates came in between, for every agent class.
C35_LoadRestoresMetrics ==
  (ag_last.op = "load") =>
    /\ ag.metrics = ag_file[1].at_save.metrics
    /\ ag.window = ag_file[1].at_save.window

\* C36: once select_trainer has chosen a trainer, the agent it drives is of the
\* variant the configured algorithm type names (DQNAgent for DQN, PPOAgent for
\* PPO, ...), so trainer and agent always match.
C36_AgentMatchesAlgorithm ==
  (rn_trainer # "none") => rn_agent = AgentVariant(rn_cfg.algo)

C38_ObservationShapeIsReported ==
  (fs_last.op \in {"reset", "step"}) =>
    StackedShape(fs_out) = ObservationSpaceShape(fs.num_frames)

\* C40: whenever a checkpoint file is written for episode i, train_episode(i)
\* has returned and after_episode has run; if an evaluation was due after the
\* same episode it has returned and every wrapper of the chain is back in
\* training mode; and the file's path is CheckpointPath(i), which no file written
\* before has and no other episode index of the run maps to.
C40_EvaluationThenCheckpoint ==
  [][ (files' # files) =>
        LET i == episode_idx
        IN /\ ep_done.count = i + 1
           /\ ~ep_active
           /\ EvalDue(i, config.eval_every) =>
                /\ evals # <<>>
                /\ evals[Len(evals)].after = i
                /\ evals[Len(evals)].returned
                /\ ~in_eval
                /\ \A n \in WrapperNames : InChain(n) => wr.training[n]
           /\ \A f \in files' \ files :
                /\ f.path = CheckpointPath(i)
                /\ \A g \in files : g.path # f.path
           /\ \A j \in 0..(config.num_episodes - 1) :
                (j # i) => CheckpointPath(j) # CheckpointPath(i) ]_vars

\* Two episodes, each followed by an evaluation of at least one episode and by a
\* checkpoint, on a chain with a wrapper that follows the training mode.
C40_Witness ==
  /\ pc = "loop"
  /\ episode_idx = 2
  /\ InChain("normalize_observations")
  /\ Len(evals) = 2
  /\ evals[2].after = 1 /\ evals[2].returned /\ evals[2].episodes >= 1
  /\ {f.path : f \in files} = {CheckpointPath(0), CheckpointPath(1)}

====
